---- MODULE Spec2Model ----
(***************************************************************************)
(* A model of the core of libdcp: the package loader and writer            *)
(* (src/src/dcp.cc, src/src/cpl.cc, src/src/reel_asset.cc), the top level  *)
(* of the verifier (src/src/verify.cc) and the certificate chain           *)
(* (src/src/certificate_chain.cc).                                         *)
(*                                                                         *)
(* Optional values (boost::optional<T>) are sequences of length 0 or 1.    *)
(* Identifiers (UUIDs) are naturals; their order is the order std::map     *)
(* gives to the id strings.  Exceptions are named by their C++ type.       *)
(***************************************************************************)
EXTENDS Integers, Sequences, FiniteSets, TLC

VARIABLES
    A,          \* the DCP object of the caller: _cpls, _pkls, _standard, _asset_map
    B,          \* a second DCP object, made for the directory and read
    disk,       \* the files of the package directory: path -> content
    notes,      \* the notes vector handed to DCP::read, or returned by dcp::verify
    uuids,      \* how many UUIDs make_uuid has handed out
    last,       \* the last operation and how it ended
    rdirs,      \* SpecRead / SpecVerify: the directories given to the operation
    certs,      \* CertificateChain::_certificates
    key,        \* CertificateChain::_key
    signedDoc,  \* the element handed to CertificateChain::sign, as the call leaves it
    tmp,        \* the scratch directories that exist under the temp directory
    cwd,        \* the current directory of the process: 0 or a scratch directory
    obj         \* the object a caller holds and works on: a ReelAsset, a CPL, or none;
                \* SpecVerifyState: the function-local statics of the process

vars == <<A, B, disk, notes, uuids, last, rdirs, certs, key, signedDoc, tmp, cwd, obj>>

dcpVars   == <<A, B, disk, notes, uuids, rdirs>>
chainVars == <<certs, key, signedDoc, tmp, cwd, obj>>

----------------------------------------------------------------------------
(* Bounds *)

NumCplIds   == 2    \* ids of compositions: 1..NumCplIds
MaxCpls     == 2    \* the longest _cpls list a caller builds with DCP::add
MaxReads    == 2    \* DCP::read calls on the caller's object
MaxWrites   == 2    \* DCP::write_xml calls on the caller's object

CplIds   == 1..NumCplIds
AssetIds == {11, 12}
PklIdBase == 100

None == <<>>
Some(x) == <<x>>
IsSome(o) == Len(o) = 1
Get(o) == o[1]

Standards == {"INTEROP", "SMPTE"}

RECURSIVE SeqToSet(_)
SeqToSet(s) == IF s = <<>> THEN {} ELSE {Head(s)} \cup SeqToSet(Tail(s))

RECURSIVE SetToSortedSeq(_)
\* the elements of a finite set of integers in ascending order
SetToSortedSeq(S) ==
    IF S = {} THEN <<>>
    ELSE LET m == CHOOSE x \in S : \A y \in S : x <= y
         IN <<m>> \o SetToSortedSeq(S \ {m})

----------------------------------------------------------------------------
(* Namespaces and PKL type strings *)

assetmap_interop_ns == "http://www.digicine.com/PROTO-ASDCP-AM-20040311#"
assetmap_smpte_ns   == "http://www.smpte-ra.org/schemas/429-9/2007/AM"
cpl_interop_ns      == "http://www.digicine.com/PROTO-ASDCP-CPL-20040511#"
cpl_smpte_ns        == "http://www.smpte-ra.org/schemas/429-7/2006/CPL"

CPL_static_pkl_type(standard) ==
    IF standard = "INTEROP" THEN "text/xml;asdcpKind=CPL" ELSE "text/xml"

AtmosAsset_static_pkl_type(standard) == "application/mxf"

PictureAsset_static_pkl_type(standard) ==
    IF standard = "INTEROP" THEN "application/mxf;asdcpKind=Picture" ELSE "application/mxf"

SoundAsset_static_pkl_type(standard) ==
    IF standard = "INTEROP" THEN "application/mxf;asdcpKind=Sound" ELSE "application/mxf"

InteropSubtitleAsset_static_pkl_type(standard) == "text/xml"

SMPTESubtitleAsset_static_pkl_type(standard) == "application/mxf"

FontAsset_static_pkl_type(standard) == "application/ttf"

\* Asset::pkl_type of an essence asset, by its kind
Asset_pkl_type(kind, standard) ==
    IF kind = "picture" THEN PictureAsset_static_pkl_type(standard)
    ELSE SoundAsset_static_pkl_type(standard)

----------------------------------------------------------------------------
(* ContentKind and its conversions (util.cc) *)

ContentKinds == {"FEATURE", "SHORT", "TRAILER", "TEST", "TRANSITIONAL", "RATING",
                 "TEASER", "POLICY", "PUBLIC_SERVICE_ANNOUNCEMENT", "ADVERTISEMENT"}

content_kind_to_string(kind) ==
    CASE kind = "FEATURE" -> "feature"
      [] kind = "SHORT" -> "short"
      [] kind = "TRAILER" -> "trailer"
      [] kind = "TEST" -> "test"
      [] kind = "TRANSITIONAL" -> "transitional"
      [] kind = "RATING" -> "rating"
      [] kind = "TEASER" -> "teaser"
      [] kind = "POLICY" -> "policy"
      [] kind = "PUBLIC_SERVICE_ANNOUNCEMENT" -> "psa"
      [] kind = "ADVERTISEMENT" -> "advertisement"
      [] OTHER -> "DCP_ASSERT"

\* the strings are compared after tolower(); the model's strings are lower case
\* already, except for the one mixed-case spelling "Feature"
tolower(s) == IF s = "Feature" THEN "feature" ELSE s

\* <<kind>>, or <<>> when DCP_ASSERT (false) is reached
content_kind_from_string(str) ==
    LET kind == tolower(str) IN
    CASE kind = "feature" -> Some("FEATURE")
      [] kind = "short" -> Some("SHORT")
      [] kind = "trailer" -> Some("TRAILER")
      [] kind = "test" -> Some("TEST")
      [] kind = "transitional" -> Some("TRANSITIONAL")
      [] kind = "rating" -> Some("RATING")
      [] kind = "teaser" -> Some("TEASER")
      [] kind = "policy" -> Some("POLICY")
      [] kind = "psa" -> Some("PUBLIC_SERVICE_ANNOUNCEMENT")
      [] kind = "advertisement" -> Some("ADVERTISEMENT")
      [] OTHER -> None

----------------------------------------------------------------------------
(* Numbers in XML text: raw_convert<string> writes the decimal digits of a   *)
(* number and raw_convert<int64_t> / number_child read them back.            *)

RECURSIVE raw_convert_string(_)
raw_convert_string(n) ==
    IF n < 10 THEN <<n>> ELSE raw_convert_string(n \div 10) \o <<n % 10>>

RECURSIVE raw_convert_int(_)
raw_convert_int(ds) ==
    IF ds = <<>> THEN 0
    ELSE raw_convert_int(SubSeq(ds, 1, Len(ds) - 1)) * 10 + ds[Len(ds)]

optional_number_to_xml(o) == IF IsSome(o) THEN Some(raw_convert_string(Get(o))) ELSE None
optional_number_child(o)  == IF IsSome(o) THEN Some(raw_convert_int(Get(o))) ELSE None

\* Fraction::as_string writes "numerator denominator"; Fraction (string) splits at the space
Fraction_as_string(f) == <<raw_convert_string(f[1]), raw_convert_string(f[2])>>
Fraction_from_string(s) == <<raw_convert_int(s[1]), raw_convert_int(s[2])>>

----------------------------------------------------------------------------
(* Paths of the package directory *)

cpl_path(id) == <<"cpl", id>>     \* name_format.get ('t' -> "cpl", "_" + id + ".xml")
pkl_path(id) == <<"pkl", id>>     \* name_format.get ('t' -> "pkl", "_" + id + ".xml")
mxf_path(id) == <<"mxf", id>>     \* the file an asset writer gave to asset id
empty_path   == <<"", 0>>
ASSETMAP_path      == <<"ASSETMAP", 0>>
ASSETMAP_xml_path  == <<"ASSETMAP.xml", 0>>
VOLINDEX_path      == <<"VOLINDEX", 0>>
VOLINDEX_xml_path  == <<"VOLINDEX.xml", 0>>

\* boost::filesystem::exists (directory / p): the empty path names the directory itself
exists(d, p) == p = empty_path \/ p \in DOMAIN d

----------------------------------------------------------------------------
(* Essence assets and reel assets *)

\* the essence assets a caller has written into the directory (asset writers)
AssetOf(id) ==
    [id |-> id,
     kind |-> IF id = 11 THEN "picture" ELSE "sound",
     edit_rate |-> <<24, 1>>,
     intrinsic_duration |-> 24]

\* make_digest: the digest of a file stands for the content it was made of
make_digest(content) == <<"sha1", content>>

\* an MXF file: its id, its essence and what the asset made of it says of itself
\* (size and edit rate of a picture, sampling rate of a sound), and its content
mxf_file(id) ==
    [kind |-> "mxf", Id |-> id, essence |-> AssetOf(id).kind,
     size |-> <<2048, 858>>, edit_rate |-> AssetOf(id).edit_rate, sampling_rate |-> 48000,
     content |-> 0]

\* ReelAsset::ReelAsset (id, edit_rate, intrinsic_duration, entry_point), reached
\* through Reel*Asset (asset, entry_point); the reference is resolved
ReelAsset_new(asset, entry_point) ==
    [id |-> asset.id,
     kind |-> asset.kind,
     intrinsic_duration |-> asset.intrinsic_duration,
     duration |-> IF IsSome(entry_point)
                  THEN Some(asset.intrinsic_duration - Get(entry_point)) ELSE None,
     annotation_text |-> None,
     edit_rate |-> asset.edit_rate,
     entry_point |-> entry_point,
     resolved |-> TRUE]

\* ReelAsset::write_to_cpl
ReelAsset_write_to_cpl(a) ==
    [Id |-> a.id,
     kind |-> a.kind,
     AnnotationText |-> IF IsSome(a.annotation_text) /\ Get(a.annotation_text) # ""
                        THEN a.annotation_text ELSE None,
     EditRate |-> Fraction_as_string(a.edit_rate),
     IntrinsicDuration |-> raw_convert_string(a.intrinsic_duration),
     EntryPoint |-> optional_number_to_xml(a.entry_point),
     Duration |-> optional_number_to_xml(a.duration)]

\* ReelAsset::ReelAsset (node); the reference is unresolved until resolve_refs
ReelAsset_from_node(node) ==
    [id |-> node.Id,
     kind |-> node.kind,
     intrinsic_duration |-> raw_convert_int(node.IntrinsicDuration),
     duration |-> optional_number_child(node.Duration),
     annotation_text |-> node.AnnotationText,
     edit_rate |-> Fraction_from_string(node.EditRate),
     entry_point |-> optional_number_child(node.EntryPoint),
     resolved |-> FALSE]

\* ReelAsset::asset_equals
ReelAsset_asset_equals(a, other, opt) ==
    /\ (a.annotation_text # other.annotation_text => opt.reel_annotation_texts_can_differ)
    /\ a.edit_rate = other.edit_rate
    /\ a.intrinsic_duration = other.intrinsic_duration
    /\ a.entry_point = other.entry_point
    /\ a.duration = other.duration

MutReelAsset_actual_duration(a) ==
    IF IsSome(a.duration) THEN Get(a.duration) ELSE a.intrinsic_duration

\* ReelAsset::actual_duration
ReelAsset_actual_duration(a) ==
    IF IsSome(a.duration) THEN Get(a.duration)
    ELSE a.intrinsic_duration - (IF IsSome(a.entry_point) THEN Get(a.entry_point) ELSE 0)

----------------------------------------------------------------------------
(* Reels: a reel holds at most one main picture and one main sound here *)

Reel_new(picture, sound) == [main_picture |-> picture, main_sound |-> sound]

Reel_write_to_cpl(r) ==
    [MainPicture |-> IF IsSome(r.main_picture)
                     THEN Some(ReelAsset_write_to_cpl(Get(r.main_picture))) ELSE None,
     MainSound |-> IF IsSome(r.main_sound)
                   THEN Some(ReelAsset_write_to_cpl(Get(r.main_sound))) ELSE None]

Reel_from_node(n) ==
    [main_picture |-> IF IsSome(n.MainPicture)
                      THEN Some(ReelAsset_from_node(Get(n.MainPicture))) ELSE None,
     main_sound |-> IF IsSome(n.MainSound)
                    THEN Some(ReelAsset_from_node(Get(n.MainSound))) ELSE None]

OptAssetEquals(x, y, opt) ==
    /\ IsSome(x) = IsSome(y)
    /\ IsSome(x) => ReelAsset_asset_equals(Get(x), Get(y), opt)

Reel_equals(r, other, opt) ==
    /\ OptAssetEquals(r.main_picture, other.main_picture, opt)
    /\ OptAssetEquals(r.main_sound, other.main_sound, opt)

\* the reel assets of one reel in the order CPL::reel_mxfs lists them
Reel_mxfs(r) == r.main_picture \o r.main_sound

OptResolve(x, ids) ==
    IF IsSome(x) /\ Get(x).id \in ids THEN Some([Get(x) EXCEPT !.resolved = TRUE]) ELSE x

\* Reel::resolve_refs: a reference whose id is in the asset list becomes resolved
Reel_resolve_refs(r, ids) ==
    [main_picture |-> OptResolve(r.main_picture, ids),
     main_sound |-> OptResolve(r.main_sound, ids)]

----------------------------------------------------------------------------
(* CPL (cpl.cc) *)

\* CPL::CPL (annotation_text, content_kind): one ContentVersion, no file, no standard
CPL_new(id, annotation_text, content_kind) ==
    [id |-> id,
     annotation_text |-> annotation_text,
     content_title_text |-> annotation_text,
     content_kind |-> content_kind,
     content_versions |-> <<id>>,
     standard |-> None,
     reels |-> <<>>,
     file |-> None]

\* CPL::add (reel)
CPL_add_reel(cpl, reel) == [cpl EXCEPT !.reels = Append(@, reel)]

\* CPL::write_xml: the document written to the file, for a CPL that has a ContentVersion
CPL_write_xml_doc(cpl, standard) ==
    [kind |-> "cpl",
     root |-> "CompositionPlaylist",
     ns |-> IF standard = "INTEROP" THEN cpl_interop_ns ELSE cpl_smpte_ns,
     Id |-> cpl.id,
     AnnotationText |-> Some(cpl.annotation_text),
     ContentTitleText |-> cpl.content_title_text,
     ContentKind |-> content_kind_to_string(cpl.content_kind),
     ContentVersion |-> Some(cpl.content_versions[1]),
     ReelList |-> [i \in 1..Len(cpl.reels) |-> Reel_write_to_cpl(cpl.reels[i])]]

\* CPL::write_xml: DCP_ASSERT (!_content_versions.empty()) comes before anything is
\* written; after the write the CPL knows its file
CPL_write_xml(cpl, standard) ==
    IF cpl.content_versions = <<>>
    THEN [threw |-> "ProgrammingError", cpl |-> cpl, doc |-> None]
    ELSE [threw |-> "none",
          cpl |-> [cpl EXCEPT !.file = Some(cpl_path(cpl.id))],
          doc |-> Some(CPL_write_xml_doc(cpl, standard))]

\* CPL::CPL (file): the CPL object parsed from a document, or the exception
CPL_from_file(path, f) ==
    LET standard == IF f.ns = cpl_interop_ns THEN Some("INTEROP")
                    ELSE IF f.ns = cpl_smpte_ns THEN Some("SMPTE") ELSE None
        kind == content_kind_from_string(f.ContentKind)
    IN
    IF standard = None THEN [threw |-> "XMLError", cpl |-> None]
    ELSE IF kind = None THEN [threw |-> "ProgrammingError", cpl |-> None]
    ELSE IF f.ContentVersion = None /\ standard = Some("SMPTE")
         THEN [threw |-> "XMLError", cpl |-> None]
    ELSE [threw |-> "none",
          cpl |-> Some([id |-> f.Id,
                        annotation_text |-> IF IsSome(f.AnnotationText)
                                            THEN Get(f.AnnotationText) ELSE "",
                        content_title_text |-> f.ContentTitleText,
                        content_kind |-> Get(kind),
                        content_versions |-> f.ContentVersion,
                        standard |-> standard,
                        reels |-> [i \in 1..Len(f.ReelList) |-> Reel_from_node(f.ReelList[i])],
                        file |-> Some(path)])]

RECURSIVE FlattenReels(_)
FlattenReels(reels) ==
    IF reels = <<>> THEN <<>> ELSE Reel_mxfs(Head(reels)) \o FlattenReels(Tail(reels))

\* CPL::reel_mxfs
CPL_reel_mxfs(cpl) == FlattenReels(cpl.reels)

\* CPL::equals
CPL_equals(cpl, other, opt) ==
    /\ ~(cpl.annotation_text # other.annotation_text /\ ~opt.cpl_annotation_texts_can_differ)
    /\ cpl.content_kind = other.content_kind
    /\ Len(cpl.reels) = Len(other.reels)
    /\ \A i \in 1..Len(cpl.reels) : Reel_equals(cpl.reels[i], other.reels[i], opt)

\* CPL::resolve_refs
CPL_resolve_refs(cpl, ids) ==
    [cpl EXCEPT !.reels = [i \in 1..Len(cpl.reels) |-> Reel_resolve_refs(cpl.reels[i], ids)]]

\* EqualityOptions (): nothing may differ
DefaultEqualityOptions ==
    [cpl_annotation_texts_can_differ |-> FALSE,
     reel_annotation_texts_can_differ |-> FALSE]

----------------------------------------------------------------------------
(* PKL *)

\* PKL::PKL (standard, ...): a new packing list with a fresh id and no entries
PKL_new(id, standard) == [id |-> id, standard |-> standard, asset_list |-> <<>>, file |-> None]

\* Asset::add_to_pkl: appends an entry with the asset's id and its type under the
\* PKL's standard
PKL_add_asset(pkl, id, type) == [pkl EXCEPT !.asset_list = Append(@, [Id |-> id, Type |-> type])]

\* PKL::write
PKL_write_doc(pkl) ==
    [kind |-> "pkl", root |-> "PackingList", Id |-> pkl.id, standard |-> pkl.standard,
     AssetList |-> pkl.asset_list]

\* PKL::PKL (file)
PKL_from_file(path, f) ==
    [id |-> f.Id, standard |-> f.standard, asset_list |-> f.AssetList, file |-> Some(path)]

RECURSIVE PKL_type(_, _)
\* PKL::type: the Type of the first entry with this id, if there is one
PKL_type(asset_list, id) ==
    IF asset_list = <<>> THEN None
    ELSE IF Head(asset_list).Id = id THEN Some(Head(asset_list).Type)
    ELSE PKL_type(Tail(asset_list), id)

----------------------------------------------------------------------------
(* DCP (dcp.cc) *)

\* DCP::DCP (directory)
NewDCP == [cpls |-> <<>>, pkls |-> <<>>, standard |-> None, asset_map |-> None]

\* DCP::add (cpl)
DCP_add(dcp, cpl) == [dcp EXCEPT !.cpls = Append(@, cpl)]

RECURSIVE AssetsOfMxfs(_, _, _)
\* the inner loop of DCP::assets over the reel assets of one CPL.  An asset that is
\* already listed is skipped; asset_ref().asset() of an unresolved reference throws
AssetsOfMxfs(mxfs, acc, ignore_unresolved) ==
    IF mxfs = <<>> THEN [threw |-> "none", assets |-> acc]
    ELSE LET j == Head(mxfs) IN
         IF ignore_unresolved /\ ~j.resolved
         THEN AssetsOfMxfs(Tail(mxfs), acc, ignore_unresolved)
         ELSE IF \E k \in 1..Len(acc) : acc[k].id = j.id
         THEN AssetsOfMxfs(Tail(mxfs), acc, ignore_unresolved)
         ELSE IF ~j.resolved
         THEN [threw |-> "ProgrammingError", assets |-> acc]
         ELSE AssetsOfMxfs(Tail(mxfs),
                           Append(acc, [id |-> j.id, kind |-> j.kind, file |-> Some(mxf_path(j.id))]),
                           ignore_unresolved)

RECURSIVE AssetsOfCpls(_, _, _)
AssetsOfCpls(cpls, acc, ignore_unresolved) ==
    IF cpls = <<>> THEN [threw |-> "none", assets |-> acc]
    ELSE LET i == Head(cpls)
             withCpl == Append(acc, [id |-> i.id, kind |-> "cpl", file |-> i.file])
             r == AssetsOfMxfs(CPL_reel_mxfs(i), withCpl, ignore_unresolved)
         IN IF r.threw # "none" THEN r
            ELSE AssetsOfCpls(Tail(cpls), r.assets, ignore_unresolved)

\* DCP::assets: every CPL, each followed by those of its reel assets not yet listed
DCP_assets(dcp, ignore_unresolved) == AssetsOfCpls(dcp.cpls, <<>>, ignore_unresolved)

\* Asset::pkl_type of an entry of DCP::assets
pkl_type_of(a, standard) ==
    IF a.kind = "cpl" THEN CPL_static_pkl_type(standard) ELSE Asset_pkl_type(a.kind, standard)

RECURSIVE AddAllToPkl(_, _)
\* for (auto i: assets()) i->add_to_pkl (pkl, _directory)
AddAllToPkl(pkl, assets) ==
    IF assets = <<>> THEN pkl
    ELSE AddAllToPkl(PKL_add_asset(pkl, Head(assets).id, pkl_type_of(Head(assets), pkl.standard)),
                     Tail(assets))

\* d with the file at path p written (created or replaced)
WriteFile(d, p, content) == [q \in DOMAIN d \cup {p} |-> IF q = p THEN content ELSE d[q]]

RECURSIVE WriteCpls(_, _, _, _)
\* the first loop of DCP::write_xml: CPL::write_xml for each CPL in turn
WriteCpls(cpls, done, d, standard) ==
    IF cpls = <<>> THEN [threw |-> "none", cpls |-> done, d |-> d]
    ELSE LET w == CPL_write_xml(Head(cpls), standard) IN
         IF w.threw # "none"
         THEN [threw |-> w.threw, cpls |-> done \o cpls, d |-> d]
         ELSE WriteCpls(Tail(cpls), Append(done, w.cpl),
                        WriteFile(d, cpl_path(Head(cpls).id), Get(w.doc)), standard)

\* DCP::write_volindex
write_volindex(d, standard) ==
    WriteFile(d, IF standard = "INTEROP" THEN VOLINDEX_path ELSE VOLINDEX_xml_path,
              [kind |-> "volindex", root |-> "VolumeIndex", standard |-> standard])

\* Asset::write_to_assetmap: an entry with the asset's id and the name of its file
AssetMapEntry(a) == [Id |-> a.id, PackingList |-> None, chunks |-> 1, Path |-> Get(a.file)]

\* DCP::write_assetmap: the PKL entry first, then one entry per asset of assets()
write_assetmap_doc(standard, pkl_id, assets) ==
    [kind |-> "assetmap",
     root |-> "AssetMap",
     ns |-> IF standard = "INTEROP" THEN assetmap_interop_ns ELSE assetmap_smpte_ns,
     AssetList |-> <<[Id |-> pkl_id, PackingList |-> Some("true"), chunks |-> 1,
                      Path |-> pkl_path(pkl_id)]>>
                   \o [i \in 1..Len(assets) |-> AssetMapEntry(assets[i])]]

\* DCP::write_xml on the object dcp for the directory d, n UUIDs having been made.
\* The result holds the exception ("none" if the call returned), the object and the
\* directory as the call leaves them.
DCP_write_xml(dcp, d, standard, n) ==
    LET w == WriteCpls(dcp.cpls, <<>>, d, standard)
        dcp1 == [dcp EXCEPT !.cpls = w.cpls]
        as == DCP_assets(dcp1, FALSE)
        fresh == dcp1.pkls = <<>>
        newPkl == PKL_new(PklIdBase + n + 1, standard)
        n2 == IF fresh THEN n + 1 ELSE n
        \* the new PKL is in _pkls before assets() is called
        pkl == IF fresh
               THEN (IF as.threw = "none" THEN AddAllToPkl(newPkl, as.assets) ELSE newPkl)
               ELSE Head(dcp1.pkls)
        dcp2 == IF fresh THEN [dcp1 EXCEPT !.pkls = <<pkl>>] ELSE dcp1
        d2 == write_volindex(WriteFile(w.d, pkl_path(pkl.id), PKL_write_doc(pkl)), standard)
        am == IF standard = "INTEROP" THEN ASSETMAP_path ELSE ASSETMAP_xml_path
    IN
    IF w.threw # "none" THEN [threw |-> w.threw, dcp |-> dcp1, d |-> w.d, n |-> n]
    ELSE IF fresh /\ as.threw # "none"
         THEN [threw |-> as.threw, dcp |-> dcp2, d |-> w.d, n |-> n2]
    ELSE IF as.threw # "none"
         THEN [threw |-> as.threw, dcp |-> dcp2, d |-> d2, n |-> n2]
    ELSE [threw |-> "none",
          dcp |-> [dcp2 EXCEPT !.asset_map = Some(am)],
          d |-> WriteFile(d2, am, write_assetmap_doc(standard, pkl.id, as.assets)),
          n |-> n2]

----------------------------------------------------------------------------
(* DCP::read *)

\* the vector<VerificationNote>* handed to read: given is FALSE for a null pointer.
\* Each note records in "at" the id of the ASSETMAP entry that was being processed
\* when it was pushed (0 outside the loop over the entries).
NoNotes  == [given |-> FALSE, list |-> <<>>]
NewNotes == [given |-> TRUE, list |-> <<>>]

Note(type, code, at) == [type |-> type, code |-> code, at |-> at]

\* if (notes) notes->push_back (note)
PushNote(ns, note) == IF ns.given THEN [ns EXCEPT !.list = Append(@, note)] ELSE ns

\* whether an ASSETMAP entry is a packing list, by the standard of the ASSETMAP
IsPackingList(standard, node) ==
    IF standard = "INTEROP" THEN IsSome(node.PackingList)
    ELSE IsSome(node.PackingList) /\ Get(node.PackingList) = "true"

RECURSIVE PklPaths(_, _)
\* pkl_paths: the paths of the packing lists in the order of the ASSETMAP
PklPaths(standard, nodes) ==
    IF nodes = <<>> THEN <<>>
    ELSE (IF IsPackingList(standard, Head(nodes)) THEN <<Head(nodes).Path>> ELSE <<>>)
         \o PklPaths(standard, Tail(nodes))

\* paths: std::map<string, path>; insert keeps the first entry of an id
PathsMap(standard, nodes) ==
    LET idx == {i \in 1..Len(nodes) : ~IsPackingList(standard, nodes[i])}
        ids == {nodes[i].Id : i \in idx}
    IN [id \in ids |->
           nodes[CHOOSE i \in idx : nodes[i].Id = id /\ \A k \in idx : nodes[k].Id = id => i <= k].Path]

RECURSIVE LoadPkls(_, _, _)
\* for (auto i: pkl_paths) _pkls.push_back (make_shared<PKL>(_directory / i))
LoadPkls(d, pkl_paths, pkls) ==
    IF pkl_paths = <<>> THEN [threw |-> "none", pkls |-> pkls]
    ELSE LET p == Head(pkl_paths) IN
         IF p \notin DOMAIN d \/ d[p].kind # "pkl"
         THEN [threw |-> "cxmlError", pkls |-> pkls]
         ELSE LoadPkls(d, Tail(pkl_paths), Append(pkls, PKL_from_file(p, d[p])))

RECURSIVE FindPklType(_, _)
\* the Type of the asset in the first PKL that lists it
FindPklType(pkls, id) ==
    IF pkls = <<>> THEN None
    ELSE LET t == PKL_type(Head(pkls).asset_list, id) IN
         IF IsSome(t) THEN t ELSE FindPklType(Tail(pkls), id)

IsXml(f) == f.kind \in {"cpl", "pkl", "assetmap", "volindex", "dcsubtitle", "xml"}

\* asset_factory: an asset for an MXF file, a ReadError for anything else
asset_factory(f) ==
    IF f.kind = "mxf" THEN [threw |-> "none", id |-> f.Id]
    ELSE [threw |-> "ReadError", id |-> 0]

\* the test of the standards without its comparison
MutStandardsDiffer(dcp_standard, cpl_standard) == FALSE

\* _standard && cpl->standard() && cpl->standard().get() != _standard.get()
StandardsDiffer(dcp_standard, cpl_standard) ==
    IsSome(dcp_standard) /\ IsSome(cpl_standard) /\ Get(cpl_standard) # Get(dcp_standard)

\* One turn of the loop of DCP::read over paths: st is the state of the read so far
\* (the CPLs and the other assets found, the notes, the entries visited)
ReadEntry(st, d, standard, id, p) ==
    LET st1 == [st EXCEPT !.visited = Append(@, id)]
        pkl_type == FindPklType(st.pkls, id)
        throw(e) == [st1 EXCEPT !.threw = e, !.threwAt = id]
    IN
    IF p = empty_path
    THEN [st1 EXCEPT !.notes = PushNote(@, Note("VERIFY_WARNING", "EMPTY_ASSET_PATH", id))]
    ELSE IF ~exists(d, p)
    THEN [st1 EXCEPT !.notes = PushNote(@, Note("VERIFY_ERROR", "MISSING_ASSET", id))]
    ELSE IF pkl_type = None
    THEN st1
    ELSE IF Get(pkl_type) = CPL_static_pkl_type(standard)
            \/ Get(pkl_type) = InteropSubtitleAsset_static_pkl_type(standard)
    THEN IF ~IsXml(d[p]) THEN throw("ReadError")
         ELSE IF d[p].root = "CompositionPlaylist"
         THEN LET c == CPL_from_file(p, d[p]) IN
              IF c.threw # "none" THEN throw(c.threw)
              ELSE [st1 EXCEPT
                      !.notes = IF StandardsDiffer(Some(standard), Get(c.cpl).standard)
                                THEN PushNote(@, Note("VERIFY_ERROR", "MISMATCHED_STANDARD", id))
                                ELSE @,
                      !.cpls = Append(@, Get(c.cpl))]
         ELSE IF d[p].root = "DCSubtitle"
         THEN [st1 EXCEPT
                 !.notes = IF standard = "SMPTE"
                           THEN PushNote(@, Note("VERIFY_ERROR", "MISMATCHED_STANDARD", id))
                           ELSE @,
                 !.other_assets = Append(@, d[p].Id)]
         ELSE st1
    ELSE IF Get(pkl_type) = PictureAsset_static_pkl_type(standard)
            \/ Get(pkl_type) = SoundAsset_static_pkl_type(standard)
            \/ Get(pkl_type) = AtmosAsset_static_pkl_type(standard)
            \/ Get(pkl_type) = SMPTESubtitleAsset_static_pkl_type(standard)
    THEN LET a == asset_factory(d[p]) IN
         IF a.threw # "none" THEN throw(a.threw)
         ELSE [st1 EXCEPT !.other_assets = Append(@, a.id)]
    ELSE IF Get(pkl_type) = FontAsset_static_pkl_type(standard)
    THEN [st1 EXCEPT !.other_assets = Append(@, id)]
    ELSE IF Get(pkl_type) = "image/png"
    THEN st1
    ELSE throw("ReadError")

RECURSIVE ReadEntries(_, _, _, _, _)
\* for (auto i: paths): the entries in the order of the map, until one throws
ReadEntries(st, d, standard, paths, ids) ==
    IF ids = <<>> \/ st.threw # "none" THEN st
    ELSE ReadEntries(ReadEntry(st, d, standard, Head(ids), paths[Head(ids)]),
                     d, standard, paths, Tail(ids))

RECURSIVE ExternalAssetNotes(_, _, _)
\* EXTERNAL_ASSET for each unresolved reel asset whose id is not in the ASSETMAP
ExternalAssetNotes(ns, mxfs, pathIds) ==
    IF mxfs = <<>> THEN ns
    ELSE ExternalAssetNotes(
             IF ~Head(mxfs).resolved /\ Head(mxfs).id \notin pathIds
             THEN PushNote(ns, Note("VERIFY_WARNING", "EXTERNAL_ASSET", 0)) ELSE ns,
             Tail(mxfs), pathIds)

RECURSIVE AllReelMxfs(_)
AllReelMxfs(cpls) ==
    IF cpls = <<>> THEN <<>> ELSE CPL_reel_mxfs(Head(cpls)) \o AllReelMxfs(Tail(cpls))

\* the result of a read that throws e with the object as it is at that point
ReadThrows(dcp, ns, e, at, visited) ==
    [threw |-> e, threwAt |-> at, dcp |-> dcp, notes |-> ns, visited |-> visited,
     other_assets |-> <<>>]

\* DCP::read on the object dcp for the directory d with the notes pointer ns.  The
\* result holds the exception ("none" if the call returned), the object and the
\* notes as the call leaves them, and the ids of the entries the loop visited.
DCP_read(dcp, d, ns) ==
    LET am == IF ASSETMAP_path \in DOMAIN d THEN Some(ASSETMAP_path)
              ELSE IF ASSETMAP_xml_path \in DOMAIN d THEN Some(ASSETMAP_xml_path)
              ELSE None
    IN
    IF am = None THEN ReadThrows(dcp, ns, "ReadError", 0, <<>>)
    ELSE
    LET asset_map == d[Get(am)]
        dcp1 == [dcp EXCEPT !.asset_map = am]
        std == IF asset_map.ns = assetmap_interop_ns THEN Some("INTEROP")
               ELSE IF asset_map.ns = assetmap_smpte_ns THEN Some("SMPTE")
               ELSE None
    IN
    IF std = None THEN ReadThrows(dcp1, ns, "XMLError", 0, <<>>)
    ELSE
    LET standard == Get(std)
        dcp2 == [dcp1 EXCEPT !.standard = std]
        nodes == asset_map.AssetList
        bad == {i \in 1..Len(nodes) : nodes[i].chunks # 1}
        \* the loop over the nodes stops at the first entry without exactly one chunk
        pkl_paths == PklPaths(standard, nodes)
        paths == PathsMap(standard, nodes)
        lp == LoadPkls(d, pkl_paths, dcp2.pkls)
        dcp3 == [dcp2 EXCEPT !.pkls = lp.pkls]
        st0 == [cpls |-> dcp3.cpls, pkls |-> dcp3.pkls, other_assets |-> <<>>, notes |-> ns,
                visited |-> <<>>, threw |-> "none", threwAt |-> 0]
        st == ReadEntries(st0, d, standard, paths, SetToSortedSeq(DOMAIN paths))
        resolved == [i \in 1..Len(st.cpls) |->
                        CPL_resolve_refs(st.cpls[i], SeqToSet(st.other_assets))]
    IN
    IF bad # {} THEN ReadThrows(dcp2, ns, "XMLError", 0, <<>>)
    ELSE IF pkl_paths = <<>> THEN ReadThrows(dcp2, ns, "XMLError", 0, <<>>)
    ELSE IF lp.threw # "none" THEN ReadThrows(dcp3, ns, lp.threw, 0, <<>>)
    ELSE IF st.threw # "none"
         THEN ReadThrows([dcp3 EXCEPT !.cpls = st.cpls], st.notes, st.threw, st.threwAt, st.visited)
    ELSE [threw |-> "none", threwAt |-> 0,
          dcp |-> [dcp3 EXCEPT !.cpls = resolved],
          notes |-> ExternalAssetNotes(st.notes, AllReelMxfs(resolved), DOMAIN paths),
          visited |-> st.visited,
          other_assets |-> st.other_assets]

\* DCP::equals: the CPL counts agree and every CPL of a has an equal CPL in b
DCP_equals(a, b, opt) ==
    /\ Len(a.cpls) = Len(b.cpls)
    /\ \A i \in 1..Len(a.cpls) :
          \E j \in 1..Len(b.cpls) : CPL_equals(b.cpls[j], a.cpls[i], opt)

----------------------------------------------------------------------------
(* The package life cycle: a caller builds a package in the object A with     *)
(* DCP::add, writes it with write_xml, may read the directory into A again,   *)
(* and reads the directory into a new object B.                               *)

\* the reels a caller builds from the essence assets
Reel1 == Reel_new(Some(ReelAsset_new(AssetOf(11), Some(0))), None)
Reel2 == Reel_new(Some(ReelAsset_new(AssetOf(11), None)), Some(ReelAsset_new(AssetOf(12), Some(1))))

ReelLists == {<<>>, <<Reel1, Reel2>>}

TextsAndKinds == {<<"a", "FEATURE">>, <<"b", "TRAILER">>}

RECURSIVE AddReels(_, _)
AddReels(cpl, reels) ==
    IF reels = <<>> THEN cpl ELSE AddReels(CPL_add_reel(cpl, Head(reels)), Tail(reels))

\* the CPLs a caller makes with CPL::CPL (annotation_text, content_kind) and CPL::add (reel)
NewCpls ==
    {AddReels(CPL_new(id, tk[1], tk[2]), reels) :
        id \in CplIds, tk \in TextsAndKinds, reels \in ReelLists}

\* the directory before anything is written: the essence files of the asset writers
EssenceFiles == [p \in {mxf_path(a) : a \in AssetIds} |-> mxf_file(p[2])]

\* no element is being signed
NoDoc == [signed |-> FALSE, standard |-> "", SignatureMethod |-> "", DigestMethod |-> "",
          Signer |-> [X509IssuerName |-> 0, X509SerialNumber |-> 0, X509SubjectName |-> 0],
          KeyInfo |-> <<>>]

InitChain ==
    /\ certs = <<>>
    /\ key = None
    /\ signedDoc = NoDoc
    /\ tmp = {}
    /\ cwd = 0
    /\ obj = None

\* last: the last operation, the exception it ended with, whether the caller's
\* object was built in memory only, whether the directory is as the caller's last
\* write_xml left it with the object unchanged since, and the
\* numbers of reads and writes made on the caller's object; for a read of a
\* directory also the entry that raised the exception, the entries the loop
\* visited and the assets other than CPLs that were made; for a verify the notes
\* it added for each directory it has finished; for an operation of a certificate
\* chain what it returned; for a setter of a CPL the argument it was given
Last(op, threw, built, written, reads, writes) ==
    [op |-> op, threw |-> threw, built |-> built, written |-> written,
     reads |-> reads, writes |-> writes, threwAt |-> 0, visited |-> <<>>,
     other_assets |-> <<>>, groups |-> <<>>, result |-> <<>>, arg |-> <<>>]

Init ==
    /\ A = NewDCP
    /\ B = NewDCP
    /\ disk = EssenceFiles
    /\ notes = NewNotes
    /\ uuids = 0
    /\ last = Last("init", "none", TRUE, FALSE, 0, 0)
    /\ rdirs = <<>>
    /\ InitChain

\* d.add (cpl) with a CPL the caller has made: its id is a new UUID
Add(cpl) ==
    /\ Len(A.cpls) < MaxCpls
    /\ \A i \in 1..Len(A.cpls) : A.cpls[i].id # cpl.id
    /\ A' = DCP_add(A, cpl)
    /\ last' = Last("add", "none", last.built, FALSE, last.reads, last.writes)
    /\ UNCHANGED <<B, disk, notes, uuids, rdirs>>
    /\ UNCHANGED chainVars

\* d.write_xml (standard)
WriteXml(standard) ==
    /\ last.writes < MaxWrites
    /\ LET r == DCP_write_xml(A, disk, standard, uuids) IN
       /\ A' = r.dcp
       /\ disk' = r.d
       /\ uuids' = r.n
       /\ last' = Last("write_xml", r.threw, last.built, r.threw = "none",
                       last.reads, last.writes + 1)
    /\ UNCHANGED <<B, notes, rdirs>>
    /\ UNCHANGED chainVars

\* d.read (&notes) on the caller's object
Read ==
    /\ last.reads < MaxReads
    /\ LET r == DCP_read(A, disk, NewNotes) IN
       /\ A' = r.dcp
       /\ notes' = r.notes
       /\ last' = Last("read", r.threw, FALSE, FALSE, last.reads + 1, last.writes)
    /\ UNCHANGED <<B, disk, uuids, rdirs>>
    /\ UNCHANGED chainVars

\* dcp::DCP b (directory); b.read (notes)
ReadFresh(ns) ==
    /\ LET r == DCP_read(NewDCP, disk, ns) IN
       /\ B' = r.dcp
       /\ notes' = r.notes
       /\ last' = Last("read_fresh", r.threw, last.built, last.written, last.reads, last.writes)
    /\ UNCHANGED <<A, disk, uuids, rdirs>>
    /\ UNCHANGED chainVars

Next ==
    \/ \E cpl \in NewCpls : Add(cpl)
    \/ \E standard \in Standards : WriteXml(standard)
    \/ Read
    \/ \E ns \in {NoNotes, NewNotes} : ReadFresh(ns)

Spec == Init /\ [][Next]_vars

----------------------------------------------------------------------------
(* C1 *)

\* C1: a package built in memory, written with write_xml and read back from the
\* directory into a new object is equal to the package under the default
\* EqualityOptions.
C1_RoundTrip ==
    (last.op = "read_fresh" /\ last.built /\ last.written)
        => (last.threw = "none" /\ DCP_equals(A, B, DefaultEqualityOptions))

----------------------------------------------------------------------------
(* C5 *)

PklEntryIds(d, node) == {d[node.Path].AssetList[k].Id : k \in 1..Len(d[node.Path].AssetList)}

\* C5: after write_xml has returned, the PKL that was written and that the ASSETMAP
\* declares holds an entry for every asset of DCP::assets(), whatever reads, adds
\* and writes came before.
C5_PklListsAllAssets ==
    (last.op = "write_xml" /\ last.threw = "none") =>
        LET am == disk[Get(A.asset_map)]
            as == DCP_assets(A, FALSE).assets
        IN \A i \in 1..Len(am.AssetList) :
              IsSome(am.AssetList[i].PackingList) =>
                  \A k \in 1..Len(as) : as[k].id \in PklEntryIds(disk, am.AssetList[i])

----------------------------------------------------------------------------
(* Reading a directory that some other tool has made: an ASSETMAP of either   *)
(* standard with two packing lists and NumEntries other entries in any order, *)
(* each entry a CPL of either standard, an MXF file, a path to a file that is *)
(* not there or an empty path, listed in a packing list under some Type or in *)
(* no packing list.                                                           *)

NumEntries == 2

EntryIds == 1..NumEntries

PklIds == {PklIdBase + 1, PklIdBase + 2}

\* what an entry points at and the Type some packing list gives it (None: the
\* entry is in no packing list)
EntryKinds ==
    {[file |-> "cpl_smpte", type |-> Some("text/xml")],
     [file |-> "cpl_smpte", type |-> Some("text/xml;asdcpKind=CPL")],
     [file |-> "cpl_smpte", type |-> None],
     [file |-> "cpl_interop", type |-> Some("text/xml")],
     [file |-> "cpl_interop", type |-> Some("text/xml;asdcpKind=CPL")],
     [file |-> "mxf", type |-> Some("application/mxf")],
     [file |-> "mxf", type |-> Some("application/octet-stream")],
     [file |-> "missing", type |-> None],
     [file |-> "empty", type |-> None]}

Perms(S) == {f \in [1..Cardinality(S) -> S] : \A i, j \in 1..Cardinality(S) : f[i] = f[j] => i = j}

\* the ASSETMAP orders: the packing lists in either order, then the other entries
\* in any order
AssetMapOrders == {o[1] \o o[2] : o \in Perms(PklIds) \X Perms(EntryIds)}

\* the packing list that lists an entry: odd ids in the first, even ids in the second
PklOfEntry(e) == IF e % 2 = 1 THEN PklIdBase + 1 ELSE PklIdBase + 2

EntryPath(e, kind) ==
    IF kind.file = "empty" THEN empty_path
    ELSE IF kind.file \in {"cpl_interop", "cpl_smpte"} THEN cpl_path(e)
    ELSE mxf_path(e)

\* <Asset> of the ASSETMAP for the node id
ForeignAssetMapNode(id, kinds) ==
    IF id \in PklIds
    THEN [Id |-> id, PackingList |-> Some("true"), chunks |-> 1, Path |-> pkl_path(id)]
    ELSE [Id |-> id, PackingList |-> None, chunks |-> 1, Path |-> EntryPath(id, kinds[id])]

\* a CPL file of the given standard whose one reel refers to the next entry
ForeignCplFile(e, standard) ==
    [kind |-> "cpl", root |-> "CompositionPlaylist",
     ns |-> IF standard = "INTEROP" THEN cpl_interop_ns ELSE cpl_smpte_ns,
     Id |-> e,
     AnnotationText |-> Some("a"),
     ContentTitleText |-> "a",
     ContentKind |-> "feature",
     ContentVersion |-> Some(e),
     ReelList |-> <<Reel_write_to_cpl(
                       Reel_new(Some(ReelAsset_new(
                                    [AssetOf(11) EXCEPT !.id = (e % NumEntries) + 1], None)),
                                None))>>]

\* the file an entry points at; there is none for a missing file or an empty path
ForeignFile(e, kind) ==
    IF kind.file = "cpl_interop" THEN ForeignCplFile(e, "INTEROP")
    ELSE IF kind.file = "cpl_smpte" THEN ForeignCplFile(e, "SMPTE")
    ELSE [mxf_file(11) EXCEPT !.Id = e]

\* the packing list id: the entries it lists, in the order of their ids
ForeignPklFile(id, standard, kinds) ==
    LET listed == SetToSortedSeq({e \in EntryIds : PklOfEntry(e) = id /\ IsSome(kinds[e].type)})
    IN [kind |-> "pkl", root |-> "PackingList", Id |-> id, standard |-> standard,
        AnnotationText |-> Some("a"),
        AssetList |-> [i \in 1..Len(listed) |->
                          [Id |-> listed[i], Type |-> Get(kinds[listed[i]].type),
                           Hash |-> make_digest(0)]]]

ForeignAssetMapFile(standard, order, kinds) ==
    [kind |-> "assetmap",
     root |-> "AssetMap",
     ns |-> IF standard = "INTEROP" THEN assetmap_interop_ns ELSE assetmap_smpte_ns,
     AssetList |-> [i \in 1..Len(order) |-> ForeignAssetMapNode(order[i], kinds)]]

ForeignDirectory(standard, order, kinds) ==
    LET am == IF standard = "INTEROP" THEN ASSETMAP_path ELSE ASSETMAP_xml_path
        files == {am} \cup {pkl_path(id) : id \in PklIds}
                 \cup {EntryPath(e, kinds[e]) : e \in {x \in EntryIds :
                                                    kinds[x].file \notin {"missing", "empty"}}}
    IN [p \in files |->
           IF p = am THEN ForeignAssetMapFile(standard, order, kinds)
           ELSE IF p[1] = "pkl" THEN ForeignPklFile(p[2], standard, kinds)
           ELSE ForeignFile(p[2], kinds[p[2]])]

ForeignDirectories ==
    {ForeignDirectory(standard, order, kinds) :
        standard \in Standards, order \in AssetMapOrders, kinds \in [EntryIds -> EntryKinds]}

InitRead ==
    /\ A = NewDCP
    /\ B = NewDCP
    /\ disk \in ForeignDirectories
    /\ notes = NewNotes
    /\ uuids = 0
    /\ last = Last("init", "none", FALSE, FALSE, 0, 0)
    /\ rdirs = <<>>
    /\ InitChain

\* dcp::DCP b (directory); b.read (notes) on a directory of another tool
ReadDirectory(ns) ==
    /\ LET r == DCP_read(NewDCP, disk, ns) IN
       /\ B' = r.dcp
       /\ notes' = r.notes
       /\ last' = [Last("read_directory", r.threw, FALSE, FALSE, 0, 0) EXCEPT
                      !.threwAt = r.threwAt, !.visited = r.visited,
                      !.other_assets = r.other_assets]
    /\ UNCHANGED <<A, disk, uuids, rdirs>>
    /\ UNCHANGED chainVars

NextRead == \E ns \in {NoNotes, NewNotes} : ReadDirectory(ns)

SpecRead == InitRead /\ [][NextRead]_vars

\* the ASSETMAP of the directory, its standard and the entries that are no packing lists
TheAssetMap == disk[IF ASSETMAP_path \in DOMAIN disk THEN ASSETMAP_path ELSE ASSETMAP_xml_path]

TheStandard == IF TheAssetMap.ns = assetmap_interop_ns THEN "INTEROP" ELSE "SMPTE"

\* the position of the first ASSETMAP entry with this id
PositionOf(id) ==
    CHOOSE i \in 1..Len(TheAssetMap.AssetList) :
        /\ TheAssetMap.AssetList[i].Id = id
        /\ \A k \in 1..(i - 1) : TheAssetMap.AssetList[k].Id # id

\* the ids of the entries of the ASSETMAP that no packing list of the directory lists
InNoPkl ==
    {TheAssetMap.AssetList[i].Id : i \in {k \in 1..Len(TheAssetMap.AssetList) :
        /\ ~IsPackingList(TheStandard, TheAssetMap.AssetList[k])
        /\ \A p \in DOMAIN disk : disk[p].kind = "pkl" =>
              \A m \in 1..Len(disk[p].AssetList) :
                  disk[p].AssetList[m].Id # TheAssetMap.AssetList[k].Id}}

CplIdsOf(dcp) == {dcp.cpls[i].id : i \in 1..Len(dcp.cpls)}

----------------------------------------------------------------------------
(* C2 *)

\* C2: an ASSETMAP entry whose id is in no PKL is skipped silently by DCP::read:
\* no asset is made for it, no exception is thrown at it and no note is added on
\* its account.
C2_NotInPklSkippedSilently ==
    last.op = "read_directory" =>
        \A id \in InNoPkl :
            /\ id \notin CplIdsOf(B)
            /\ id \notin SeqToSet(last.other_assets)
            /\ ~(last.threw # "none" /\ last.threwAt = id)
            /\ \A k \in 1..Len(notes.list) : notes.list[k].at # id

----------------------------------------------------------------------------
(* C3 *)

\* the ids of the other entries of the ASSETMAP
OtherEntryIds ==
    {TheAssetMap.AssetList[k].Id : k \in {i \in 1..Len(TheAssetMap.AssetList) :
        ~IsPackingList(TheStandard, TheAssetMap.AssetList[i])}}

\* the CPLs the read has discovered whose standard is not the ASSETMAP's: entries
\* the loop came to, listed in a PKL under a Type of an XML asset, whose file is a
\* CompositionPlaylist of the other standard
MismatchedCpls ==
    {id \in SeqToSet(last.visited) :
        LET p == TheAssetMap.AssetList[PositionOf(id)].Path
            t == FindPklType(B.pkls, id)
        IN /\ exists(disk, p)
           /\ IsSome(t)
           /\ Get(t) \in {CPL_static_pkl_type(TheStandard),
                          InteropSubtitleAsset_static_pkl_type(TheStandard)}
           /\ disk[p].root = "CompositionPlaylist"
           /\ disk[p].ns = (IF TheStandard = "INTEROP" THEN cpl_smpte_ns ELSE cpl_interop_ns)
           /\ CPL_from_file(p, disk[p]).threw = "none"}

\* C3: when DCP::read with a note list discovers a CPL whose standard differs from
\* the ASSETMAP's, a MISMATCHED_STANDARD error note is added for it, the CPL is
\* appended to the package, no exception is raised at it and the entry after it
\* is processed.
C3_MismatchedStandardNoted ==
    (last.op = "read_directory" /\ notes.given) =>
        \A id \in MismatchedCpls :
            /\ \E k \in 1..Len(notes.list) :
                  notes.list[k] = Note("VERIFY_ERROR", "MISMATCHED_STANDARD", id)
            /\ id \in CplIdsOf(B)
            /\ last.threwAt # id
            /\ \A e \in OtherEntryIds :
                  (e > id /\ \A x \in OtherEntryIds : x > id => e <= x)
                      => e \in SeqToSet(last.visited)

\* a read has noted a mismatched CPL and gone on to a later entry
C3_Witness ==
    /\ last.op = "read_directory"
    /\ notes.given
    /\ \E id \in MismatchedCpls :
          /\ \E e \in SeqToSet(last.visited) : e > id
          /\ id \in CplIdsOf(B)

----------------------------------------------------------------------------
(* C4 *)

\* C4: after DCP::read the PKLs of the package are in the order of their ASSETMAP
\* entries and the CPLs of cpls() are in the order of their ASSETMAP entries.
C4_SourceOrder ==
    (last.op = "read_directory" /\ last.threw = "none") =>
        /\ \A i, j \in 1..Len(B.pkls) :
              i < j => PositionOf(B.pkls[i].id) < PositionOf(B.pkls[j].id)
        /\ \A i, j \in 1..Len(B.cpls) :
              i < j => PositionOf(B.cpls[i].id) < PositionOf(B.cpls[j].id)

----------------------------------------------------------------------------
(* dcp::verify (verify.cc) on a list of directories.  The documents of the     *)
(* directories are valid against the schemas, nothing is encrypted and every  *)
(* reel asset carries its hash, so validate_xml and the checks of signatures  *)
(* and hashes add no notes.                                                   *)

MaxDirs == 2

\* the exceptions dcp::verify catches around dcp->read
CaughtByVerify == {"ReadError", "XMLError", "MXFFileError", "cxmlError"}

\* INVALID_DURATION and INVALID_INTRINSIC_DURATION for one asset of a reel
VerifyReelAsset(a) ==
    (IF IsSome(a.duration) /\ (Get(a.duration) * a.edit_rate[2]) \div a.edit_rate[1] < 1
     THEN <<Note("VERIFY_ERROR", "INVALID_DURATION", a.id)>> ELSE <<>>)
    \o (IF (a.intrinsic_duration * a.edit_rate[2]) \div a.edit_rate[1] < 1
        THEN <<Note("VERIFY_ERROR", "INVALID_INTRINSIC_DURATION", a.id)>> ELSE <<>>)

RECURSIVE VerifyReelAssets(_)
\* the first loop over the assets of a reel
VerifyReelAssets(assets) ==
    IF assets = <<>> THEN <<>>
    ELSE VerifyReelAsset(Head(assets)) \o VerifyReelAssets(Tail(assets))

MutDurationsDiffer(assets) ==
    \E i \in 1..Len(assets) : assets[i].intrinsic_duration # assets[1].intrinsic_duration

\* whether some asset of the reel has an actual duration other than the first one's
DurationsDiffer(assets) ==
    \E i \in 1..Len(assets) :
        ReelAsset_actual_duration(assets[i]) # ReelAsset_actual_duration(assets[1])

RECURSIVE PKL_hash(_, _)
\* PKL::hash: the Hash of the first entry with this id, if there is one
PKL_hash(asset_list, id) ==
    IF asset_list = <<>> THEN None
    ELSE IF Head(asset_list).Id = id THEN Some(Head(asset_list).Hash)
    ELSE PKL_hash(Tail(asset_list), id)

RECURSIVE FindPklHash(_, _)
\* verify_asset: the hash of the asset in the first PKL that lists it
FindPklHash(pkls, id) ==
    IF pkls = <<>> THEN None
    ELSE IF IsSome(PKL_hash(Head(pkls).asset_list, id))
         THEN PKL_hash(Head(pkls).asset_list, id)
         ELSE FindPklHash(Tail(pkls), id)

\* ReelMXF::hash: the <Hash> of the node of the CPL file the reel asset was made of
ReelMXF_hash(node) == IF "Hash" \in DOMAIN node THEN Some(node.Hash) ELSE None

\* verify_asset for the resolved reel asset a, made of the node of a CPL file.  A
\* resolved asset is in a packing list: DCP::read made it for the Type it has there
verify_asset(d, dcp, a, node) ==
    IF IsSome(ReelMXF_hash(node)) /\ ReelMXF_hash(node) # FindPklHash(dcp.pkls, a.id)
    THEN "VERIFY_ASSET_RESULT_CPL_PKL_DIFFER"
    ELSE IF Some(make_digest(d[mxf_path(a.id)].content)) # FindPklHash(dcp.pkls, a.id)
    THEN "VERIFY_ASSET_RESULT_BAD"
    ELSE "VERIFY_ASSET_RESULT_GOOD"

\* verify_main_picture_asset: the notes for the hash, the size and the edit rate
verify_main_picture_asset(d, dcp, a, node) ==
    LET asset == d[mxf_path(a.id)]
        is2K == asset.size \in {<<2048, 858>>, <<1998, 1080>>}
        is4K == asset.size \in {<<4096, 1716>>, <<3996, 2160>>}
    IN
    (IF verify_asset(d, dcp, a, node) = "VERIFY_ASSET_RESULT_BAD"
     THEN <<Note("VERIFY_ERROR", "INCORRECT_PICTURE_HASH", a.id)>>
     ELSE IF verify_asset(d, dcp, a, node) = "VERIFY_ASSET_RESULT_CPL_PKL_DIFFER"
     THEN <<Note("VERIFY_ERROR", "MISMATCHED_PICTURE_HASHES", a.id)>>
     ELSE <<>>)
    \o (IF ~is2K /\ ~is4K
        THEN <<Note("VERIFY_BV21_ERROR", "INVALID_PICTURE_SIZE_IN_PIXELS", a.id)>> ELSE <<>>)
    \o (IF is2K /\ asset.edit_rate \notin {<<24, 1>>, <<25, 1>>, <<48, 1>>}
        THEN <<Note("VERIFY_BV21_ERROR", "INVALID_PICTURE_FRAME_RATE_FOR_2K", a.id)>> ELSE <<>>)
    \o (IF is4K /\ asset.edit_rate # <<24, 1>>
        THEN <<Note("VERIFY_BV21_ERROR", "INVALID_PICTURE_FRAME_RATE_FOR_4K", a.id)>> ELSE <<>>)

\* verify_main_sound_asset: the notes for the hash and the sampling rate
verify_main_sound_asset(d, dcp, a, node) ==
    (IF verify_asset(d, dcp, a, node) = "VERIFY_ASSET_RESULT_BAD"
     THEN <<Note("VERIFY_ERROR", "INCORRECT_SOUND_HASH", a.id)>>
     ELSE IF verify_asset(d, dcp, a, node) = "VERIFY_ASSET_RESULT_CPL_PKL_DIFFER"
     THEN <<Note("VERIFY_ERROR", "MISMATCHED_SOUND_HASHES", a.id)>>
     ELSE <<>>)
    \o (IF d[mxf_path(a.id)].sampling_rate # 48000
        THEN <<Note("VERIFY_BV21_ERROR", "INVALID_SOUND_FRAME_RATE", a.id)>> ELSE <<>>)

\* the notes for one reel of a CPL and the nodes of the CPL file it was made of
VerifyReel(d, dcp, reel, nodes) ==
    VerifyReelAssets(Reel_mxfs(reel))
    \o (IF dcp.standard = Some("SMPTE") /\ DurationsDiffer(Reel_mxfs(reel))
        THEN <<Note("VERIFY_BV21_ERROR", "MISMATCHED_ASSET_DURATION", 0)>> ELSE <<>>)
    \o (IF IsSome(reel.main_picture) /\ Get(reel.main_picture).resolved
        THEN verify_main_picture_asset(d, dcp, Get(reel.main_picture), Get(nodes.MainPicture))
        ELSE <<>>)
    \o (IF IsSome(reel.main_sound) /\ Get(reel.main_sound).resolved
        THEN verify_main_sound_asset(d, dcp, Get(reel.main_sound), Get(nodes.MainSound))
        ELSE <<>>)

RECURSIVE VerifyReels(_, _, _, _)
\* the loop over the reels of a CPL
VerifyReels(d, dcp, reels, nodes) ==
    IF reels = <<>> THEN <<>>
    ELSE VerifyReel(d, dcp, Head(reels), Head(nodes))
         \o VerifyReels(d, dcp, Tail(reels), Tail(nodes))

\* how often the two loops over the entries of a PKL and the CPLs of the package
\* find an entry that is a CPL
CplEntries(pkl, cpls) ==
    Cardinality({jk \in (1..Len(pkl.asset_list)) \X (1..Len(cpls)) :
                    pkl.asset_list[jk[1]].Id = cpls[jk[2]].id})

\* the loop over the PKLs in the turn of the CPL cpl: required_annotation_text is
\* set to the ContentTitleText of cpl at a find that meets it empty, and emptied at
\* a find that meets it set
VerifyPklAnnotationTexts(d, cpls, cpl, pkls) ==
    [i \in 1..Len(pkls) |->
        IF CplEntries(pkls[i], cpls) % 2 = 1
           /\ d[Get(pkls[i].file)].AnnotationText # Some(cpl.content_title_text)
        THEN <<Note("VERIFY_BV21_ERROR", "MISMATCHED_PKL_ANNOTATION_TEXT_WITH_CPL", pkls[i].id)>>
        ELSE <<>>]

RECURSIVE Concat(_)
Concat(seqs) == IF seqs = <<>> THEN <<>> ELSE Head(seqs) \o Concat(Tail(seqs))

\* the notes for one CPL: CPL::CPL (file) always sets an annotation text
VerifyCpl(d, dcp, cpl) ==
    (IF dcp.standard = Some("SMPTE") /\ cpl.annotation_text # cpl.content_title_text
     THEN <<Note("VERIFY_WARNING", "MISMATCHED_CPL_ANNOTATION_TEXT", cpl.id)>> ELSE <<>>)
    \o Concat(VerifyPklAnnotationTexts(d, dcp.cpls, cpl, dcp.pkls))
    \o VerifyReels(d, dcp, cpl.reels, d[Get(cpl.file)].ReelList)

RECURSIVE VerifyCpls(_, _, _)
\* the loop over the CPLs of a package
VerifyCpls(d, dcp, cpls) ==
    IF cpls = <<>> THEN <<>>
    ELSE VerifyCpl(d, dcp, Head(cpls)) \o VerifyCpls(d, dcp, Tail(cpls))

\* what dcp::verify does with the outcome r of dcp->read (&notes) for the
\* directory d: the exception that leaves the turn of the loop ("none" if the turn
\* ends) and the notes pushed in the turn, in their order.  Of the notes of
\* dcp::verify the model has FAILED_READ, INVALID_STANDARD,
\* MISMATCHED_CPL_ANNOTATION_TEXT, MISMATCHED_PKL_ANNOTATION_TEXT_WITH_CPL,
\* INVALID_DURATION, INVALID_INTRINSIC_DURATION, MISMATCHED_ASSET_DURATION, the
\* notes of verify_main_picture_asset and verify_main_sound_asset for the hashes,
\* the size, the edit rate and the sampling rate, and MISSING_ASSETMAP
VerifyLoaded(d, r) ==
    IF r.threw # "none" /\ r.threw \notin CaughtByVerify
    THEN [threw |-> r.threw, notes |-> r.notes.list]
    ELSE [threw |-> "none",
          notes |->
              r.notes.list
              \o (IF r.threw # "none"
                  THEN <<Note("VERIFY_ERROR", "FAILED_READ", 0)>> ELSE <<>>)
              \o (IF r.dcp.standard # Some("SMPTE")
                  THEN <<Note("VERIFY_BV21_ERROR", "INVALID_STANDARD", 0)>> ELSE <<>>)
              \o VerifyCpls(d, r.dcp, r.dcp.cpls)
              \o (IF IsSome(r.dcp.asset_map) THEN <<>>
                  ELSE <<Note("VERIFY_ERROR", "MISSING_ASSETMAP", 0)>>)]

\* one turn of the loop of dcp::verify over the directories
VerifyDcp(d) == VerifyLoaded(d, DCP_read(NewDCP, d, NewNotes))

\* the turn with the outcome v followed by the turns with the outcome rest
VerifyThen(v, rest) ==
    IF v.threw # "none" THEN [threw |-> v.threw, notes |-> v.notes, groups |-> <<>>]
    ELSE [threw |-> rest.threw,
          notes |-> v.notes \o rest.notes,
          groups |-> <<v.notes>> \o rest.groups]

RECURSIVE VerifyDcps(_)
\* the loop over the directories: the exception that leaves it, the notes pushed
\* and, for each directory that was finished, the notes pushed for it
VerifyDcps(dirs) ==
    IF dirs = <<>> THEN [threw |-> "none", notes |-> <<>>, groups |-> <<>>]
    ELSE VerifyThen(VerifyDcp(Head(dirs)), VerifyDcps(Tail(dirs)))

\* dcp::verify (directories, ...): the notes are returned unless an exception
\* leaves the function
verify(directories) == VerifyDcps(directories)

\* the kinds of the first entry of a directory that is verified
VerifyKinds ==
    {[file |-> "cpl_smpte", type |-> Some("text/xml")],
     [file |-> "cpl_interop", type |-> Some("text/xml;asdcpKind=CPL")],
     [file |-> "mxf", type |-> Some("application/mxf")],
     [file |-> "mxf", type |-> Some("application/octet-stream")]}

FirstOrder == SetToSortedSeq(PklIds) \o SetToSortedSeq(EntryIds)

\* packages whose first entry is of some kind and whose other entries are MXF files
PlainDirectories ==
    {ForeignDirectory(standard, FirstOrder,
                      [e \in EntryIds |-> IF e = 1 THEN k
                                          ELSE [file |-> "mxf", type |-> Some("application/mxf")]]) :
        standard \in Standards, k \in VerifyKinds}

\* a directory without ASSETMAP
EmptyDirectory == [p \in {} |-> 0]

SmpteDirectory ==
    ForeignDirectory("SMPTE", FirstOrder,
                     [e \in EntryIds |-> IF e = 1 THEN [file |-> "cpl_smpte", type |-> Some("text/xml")]
                                         ELSE [file |-> "mxf", type |-> Some("application/mxf")]])

\* an ASSETMAP with a namespace of neither standard
BadNamespaceDirectory ==
    [SmpteDirectory EXCEPT ![ASSETMAP_xml_path].ns = "http://example.com/AM"]

\* a CPL whose ContentKind is none of the kinds of content_kind_from_string
BadContentKindDirectory ==
    [SmpteDirectory EXCEPT ![cpl_path(1)].ContentKind = "episode"]

VerifyDirectories ==
    PlainDirectories \cup {EmptyDirectory, BadNamespaceDirectory, BadContentKindDirectory}

InitVerify ==
    /\ A = NewDCP
    /\ B = NewDCP
    /\ disk = EmptyDirectory
    /\ notes = NewNotes
    /\ uuids = 0
    /\ last = Last("init", "none", FALSE, FALSE, 0, 0)
    /\ \E n \in 1..MaxDirs : rdirs \in [1..n -> VerifyDirectories]
    /\ InitChain

\* notes = dcp::verify (rdirs, ...)
Verify ==
    /\ LET v == verify(rdirs) IN
       /\ notes' = [given |-> TRUE, list |-> v.notes]
       /\ last' = [Last("verify", v.threw, FALSE, FALSE, 0, 0) EXCEPT !.groups = v.groups]
    /\ UNCHANGED <<A, B, disk, uuids, rdirs>>
    /\ UNCHANGED chainVars

NextVerify == Verify

SpecVerify == InitVerify /\ [][NextVerify]_vars

----------------------------------------------------------------------------
(* C6 *)

\* whether loading the directory d raises an exception
LoadThrows(d) == DCP_read(NewDCP, d, NewNotes).threw # "none"

\* C6: dcp::verify turns any exception raised while a package is loaded into a
\* FAILED_READ error note and does not abort on it: it finishes every directory
\* and returns the notes.
C6_LoadFailureBecomesNote ==
    last.op = "verify" =>
        \A i \in 1..Len(rdirs) :
            LoadThrows(rdirs[i]) =>
                /\ last.threw = "none"
                /\ Len(last.groups) = Len(rdirs)
                /\ \E k \in 1..Len(last.groups[i]) :
                      /\ last.groups[i][k].type = "VERIFY_ERROR"
                      /\ last.groups[i][k].code = "FAILED_READ"

----------------------------------------------------------------------------
(* Certificate chains (certificate_chain.cc).  A certificate is a record of    *)
(* its subject and issuer names, its public key, the key that made its        *)
(* signature and its serial number.  The certificates carry the authority key *)
(* identifier of SMPTE 430-2 (as those of the builder do), by which OpenSSL   *)
(* picks the issuer among certificates of one name.                           *)

MaxCerts == 4

Certificate(subject, issuer, pkey, signer, serial) ==
    [subject |-> subject, issuer |-> issuer, key |-> pkey, signer |-> signer, serial |-> serial]

\* a root, an intermediate and a leaf as the builder makes them (serials 5, 6, 7)
RootCert == Certificate("root", "root", 1, 1, 5)
IntermediateCert == Certificate("intermediate", "root", 2, 1, 6)
LeafCert == Certificate("leaf", "intermediate", 3, 2, 7)

\* a certificate that the intermediate issued to a holder of the root's name,
\* and a second leaf that the root issued
OtherRootNameCert == Certificate("root", "intermediate", 4, 2, 8)
RootIssuedLeafCert == Certificate("leaf", "root", 5, 1, 9)

Certificates == {RootCert, IntermediateCert, LeafCert, OtherRootNameCert, RootIssuedLeafCert}

\* the private key of LeafCert
LeafKey == Some(3)

RECURSIVE VerifiesFrom(_, _, _)
\* X509_verify_cert for c against the store, with at most depth certificates
\* above c: a self-signed certificate is trusted if it is in the store; any
\* other one needs a certificate of the store that bears its issuer's name and
\* key, verifies its signature and is verified in turn
VerifiesFrom(store, c, depth) ==
    IF c.issuer = c.subject THEN c \in store
    ELSE /\ depth > 0
         /\ \E p \in store :
               /\ p.subject = c.issuer
               /\ p.key = c.signer
               /\ VerifiesFrom(store, p, depth - 1)

X509_verify_cert(store, c) == VerifiesFrom(store, c, Cardinality(store))

\* CertificateChain::chain_valid (chain): every certificate after the first is
\* verified against the store of all certificates of the chain, and its issuer
\* and subject names are compared with the subject name of the one before
chain_valid(chain) ==
    \A i \in 1..(Len(chain) - 1) :
        /\ X509_verify_cert(SeqToSet(chain), chain[i + 1])
        /\ ~(chain[i + 1].issuer # chain[i].subject \/ chain[i + 1].subject = chain[i].subject)

\* operator< of Certificate
Certificate_less(a, b) == a.serial < b.serial

RECURSIVE InsertSorted(_, _)
InsertSorted(sorted, c) ==
    IF sorted = <<>> THEN <<c>>
    ELSE IF Certificate_less(c, Head(sorted)) THEN <<c>> \o sorted
    ELSE <<Head(sorted)>> \o InsertSorted(Tail(sorted), c)

RECURSIVE SortFrom(_, _)
SortFrom(list, sorted) ==
    IF list = <<>> THEN sorted ELSE SortFrom(Tail(list), InsertSorted(sorted, Head(list)))

\* a list left as it is
MutList_sort(list) == list

\* std::list::sort: stable, ascending by operator<
List_sort(list) == SortFrom(list, <<>>)

Reverse(s) == [i \in 1..Len(s) |-> s[Len(s) + 1 - i]]

MaxOf(S) == CHOOSE x \in S : \A y \in S : y <= x

\* the permutation after s, given the last position i with s[i] < s[i + 1]
PermutationAfter(s, i) ==
    LET j == MaxOf({k \in (i + 1)..Len(s) : Certificate_less(s[i], s[k])})
        swapped == [s EXCEPT ![i] = s[j], ![j] = s[i]]
    IN SubSeq(swapped, 1, i) \o Reverse(SubSeq(swapped, i + 1, Len(s)))

\* the positions i with s[i] < s[i + 1]
Ascents(s) == {i \in 1..(Len(s) - 1) : Certificate_less(s[i], s[i + 1])}

\* std::next_permutation: the next permutation in the order of operator<, or the
\* first one and false after the last
next_permutation(s) ==
    IF Ascents(s) = {} THEN [more |-> FALSE, seq |-> Reverse(s)]
    ELSE [more |-> TRUE, seq |-> PermutationAfter(s, MaxOf(Ascents(s)))]

RECURSIVE PermutationSearch(_)
\* do { if (chain_valid (rtl)) return rtl; } while (std::next_permutation (...))
PermutationSearch(rtl) ==
    IF chain_valid(rtl) THEN [threw |-> "none", rtl |-> rtl]
    ELSE IF next_permutation(rtl).more THEN PermutationSearch(next_permutation(rtl).seq)
    ELSE [threw |-> "CertificateChainError", rtl |-> <<>>]

\* CertificateChain::root_to_leaf: the search works on a copy rtl of the list
root_to_leaf(certificates) == PermutationSearch(List_sort(certificates))

\* CertificateChain::leaf_to_root
leaf_to_root(certificates) == Reverse(root_to_leaf(certificates).rtl)

\* CertificateChain::remove (Certificate): std::list::remove of every equal element
RECURSIVE List_remove(_, _)
List_remove(list, c) ==
    IF list = <<>> THEN <<>>
    ELSE (IF Head(list) = c THEN <<>> ELSE <<Head(list)>>) \o List_remove(Tail(list), c)

\* a SignatureMethod that does not look at the standard
MutSignatureMethod(standard) == "http://www.w3.org/2000/09/xmldsig#rsa-sha1"

\* the Algorithm of <SignatureMethod> in CertificateChain::sign
SignatureMethod(standard) ==
    IF standard = "INTEROP" THEN "http://www.w3.org/2000/09/xmldsig#rsa-sha1"
    ELSE "http://www.w3.org/2001/04/xmldsig-more#rsa-sha256"

\* the Algorithm of <DigestMethod> in CertificateChain::sign
DigestMethod(standard) == "http://www.w3.org/2000/09/xmldsig#sha1"

\* <Signer>: the names and the serial number of the leaf
SignerOf(leaf) ==
    [X509IssuerName |-> leaf.issuer, X509SerialNumber |-> leaf.serial,
     X509SubjectName |-> leaf.subject]

\* <KeyInfo>: one <X509Data> for each certificate from the leaf to the root
KeyInfoOf(ltr) ==
    [i \in 1..Len(ltr) |->
        [X509IssuerName |-> ltr[i].issuer, X509SerialNumber |-> ltr[i].serial,
         X509Certificate |-> ltr[i]]]

\* the element after CertificateChain::sign, given the root-to-leaf ordering
SignedWith(rtl, standard) ==
    [signed |-> TRUE,
     standard |-> standard,
     SignatureMethod |-> SignatureMethod(standard),
     DigestMethod |-> DigestMethod(standard),
     Signer |-> SignerOf(rtl[Len(rtl)]),
     KeyInfo |-> KeyInfoOf(Reverse(rtl))]

\* sign after leaf () has called root_to_leaf with the outcome r
SignAfter(r, standard) ==
    IF r.threw # "none" THEN [threw |-> r.threw, doc |-> NoDoc]
    ELSE [threw |-> "none", doc |-> SignedWith(r.rtl, standard)]

\* CertificateChain::sign (parent, standard): leaf () asserts that there are
\* certificates and throws if they are no chain
CertificateChain_sign(certificates, standard) ==
    IF certificates = <<>> THEN [threw |-> "ProgrammingError", doc |-> NoDoc]
    ELSE SignAfter(root_to_leaf(certificates), standard)

\* a chain object without certificates that has the private key of the leaf
InitSpecChain ==
    /\ A = NewDCP
    /\ B = NewDCP
    /\ disk = EmptyDirectory
    /\ notes = NewNotes
    /\ uuids = 0
    /\ last = Last("init", "none", FALSE, FALSE, 0, 0)
    /\ rdirs = <<>>
    /\ certs = <<>>
    /\ key = LeafKey
    /\ signedDoc = NoDoc
    /\ tmp = {}
    /\ cwd = 0
    /\ obj = None

\* chain.add (c) with a certificate that the chain does not hold yet
AddCertificate(c) ==
    /\ Len(certs) < MaxCerts
    /\ c \notin SeqToSet(certs)
    /\ certs' = Append(certs, c)
    /\ signedDoc' = NoDoc
    /\ last' = Last("add", "none", FALSE, FALSE, 0, 0)
    /\ UNCHANGED <<key, tmp, cwd, obj>>
    /\ UNCHANGED dcpVars

\* chain.remove (c)
RemoveCertificate(c) ==
    /\ c \in SeqToSet(certs)
    /\ certs' = List_remove(certs, c)
    /\ signedDoc' = NoDoc
    /\ last' = Last("remove", "none", FALSE, FALSE, 0, 0)
    /\ UNCHANGED <<key, tmp, cwd, obj>>
    /\ UNCHANGED dcpVars

\* chain.chain_valid ()
ChainValid ==
    /\ signedDoc' = NoDoc
    /\ last' = [Last("chain_valid", "none", FALSE, FALSE, 0, 0) EXCEPT
                   !.result = chain_valid(certs)]
    /\ UNCHANGED <<certs, key, tmp, cwd, obj>>
    /\ UNCHANGED dcpVars

\* what is known after root_to_leaf has ended with the outcome r
RootToLeafEnded(r, before) ==
    [Last("root_to_leaf", r.threw, FALSE, FALSE, 0, 0) EXCEPT
        !.result = [rtl |-> r.rtl, before |-> before]]

\* chain.root_to_leaf (): a const member function
RootToLeaf ==
    /\ signedDoc' = NoDoc
    /\ last' = RootToLeafEnded(root_to_leaf(certs), certs)
    /\ UNCHANGED <<certs, key, tmp, cwd, obj>>
    /\ UNCHANGED dcpVars

\* the element and the outcome after sign has ended with s
SignEnded(s) ==
    /\ signedDoc' = s.doc
    /\ last' = Last("sign", s.threw, FALSE, FALSE, 0, 0)

\* chain.sign (parent, standard) on a new element
Sign(standard) ==
    /\ SignEnded(CertificateChain_sign(certs, standard))
    /\ UNCHANGED <<certs, key, tmp, cwd, obj>>
    /\ UNCHANGED dcpVars

NextChain ==
    \/ \E c \in Certificates : AddCertificate(c)
    \/ \E c \in Certificates : RemoveCertificate(c)
    \/ ChainValid
    \/ RootToLeaf
    \/ \E standard \in Standards : Sign(standard)

SpecChain == InitSpecChain /\ [][NextChain]_vars

----------------------------------------------------------------------------
(* C7 *)

\* C7: in every certificate list that chain_valid accepts, each certificate after
\* the first names the one before it as its issuer, has another subject than it
\* and bears a signature that verifies against its public key.
C7_AcceptedChainIsPairwiseSigned ==
    (last.op = "chain_valid" /\ last.result = TRUE) =>
        \A i \in 1..(Len(certs) - 1) :
            /\ certs[i + 1].issuer = certs[i].subject
            /\ certs[i + 1].subject # certs[i].subject
            /\ certs[i + 1].signer = certs[i].key

----------------------------------------------------------------------------
(* C8 *)

\* the orderings of the stored certificates
Orderings(list) == {[i \in 1..Len(list) |-> list[f[i]]] : f \in Perms(1..Len(list))}

\* C8: root_to_leaf returns an ordering of the stored certificates that
\* chain_valid accepts whenever there is one, whatever the order of the stored
\* list, throws its not-a-chain error only when there is none, and leaves the
\* stored list as it was.
C8_RootToLeafFindsChain ==
    last.op = "root_to_leaf" =>
        /\ certs = last.result.before
        /\ IF \E o \in Orderings(certs) : chain_valid(o)
           THEN /\ last.threw = "none"
                /\ last.result.rtl \in Orderings(certs)
                /\ chain_valid(last.result.rtl)
           ELSE last.threw = "CertificateChainError"

\* root_to_leaf has put three or more certificates, stored in another order,
\* into a chain
C8_Witness ==
    /\ last.op = "root_to_leaf"
    /\ last.threw = "none"
    /\ Len(certs) >= 3
    /\ last.result.rtl # certs

----------------------------------------------------------------------------
(* C9 *)

\* C9: sign writes a DigestMethod of SHA-1 for Interop and of SHA-256 for SMPTE,
\* and a SignatureMethod of the same hash (rsa-sha1 for Interop, rsa-sha256 for
\* SMPTE).
C9_DigestFollowsStandard ==
    signedDoc.signed =>
        IF signedDoc.standard = "INTEROP"
        THEN /\ signedDoc.DigestMethod = "http://www.w3.org/2000/09/xmldsig#sha1"
             /\ signedDoc.SignatureMethod = "http://www.w3.org/2000/09/xmldsig#rsa-sha1"
        ELSE /\ signedDoc.DigestMethod = "http://www.w3.org/2001/04/xmlenc#sha256"
             /\ signedDoc.SignatureMethod = "http://www.w3.org/2001/04/xmldsig-more#rsa-sha256"

\* C9 as the code has it: sign writes a DigestMethod of SHA-1 for both
\* standards, and a SignatureMethod of rsa-sha1 for Interop and of rsa-sha256
\* for SMPTE.
C9_DigestAlwaysSha1 ==
    signedDoc.signed =>
        /\ signedDoc.DigestMethod = "http://www.w3.org/2000/09/xmldsig#sha1"
        /\ signedDoc.SignatureMethod =
              (IF signedDoc.standard = "INTEROP"
               THEN "http://www.w3.org/2000/09/xmldsig#rsa-sha1"
               ELSE "http://www.w3.org/2001/04/xmldsig-more#rsa-sha256")

\* an element has been signed for SMPTE
C9_Witness == signedDoc.signed /\ signedDoc.standard = "SMPTE"

----------------------------------------------------------------------------
(* The constructor of CertificateChain that makes a self-signed chain with    *)
(* the openssl binary.  It works in a scratch directory under the temp        *)
(* directory; each of its steps (a command, then the reading of a file the    *)
(* commands have written) may fail, and a step that fails throws.             *)

MaxBuilds == 3

\* the calls of command () in the constructor, public_key_digest's included
NumCommands == 11

\* the files read after the commands: three certificates and the leaf's key
NumReads == 4

\* failAt: the step that fails, 0 if none does
FailAts == 0..(NumCommands + NumReads)

\* the constructor called when n scratch directories have been made, the
\* directories in dirs exist and the current directory is dir
CertificateChain_new(failAt, n, dirs, dir) ==
    LET directory == n + 1 IN
    IF failAt \in 1..NumCommands
    THEN \* a command throws MiscError: the current directory is the scratch directory
         [threw |-> "MiscError", built |-> FALSE, directory |-> directory,
          certificates |-> <<>>, key |-> None,
          tmp |-> dirs \cup {directory}, cwd |-> directory]
    ELSE IF failAt > NumCommands
    THEN \* file_to_string or Certificate throws after the current directory is restored
         [threw |-> "FileError", built |-> FALSE, directory |-> directory,
          certificates |-> <<>>, key |-> None,
          tmp |-> dirs \cup {directory}, cwd |-> dir]
    ELSE [threw |-> "none", built |-> TRUE, directory |-> directory,
          certificates |-> <<RootCert, IntermediateCert, LeafCert>>, key |-> LeafKey,
          tmp |-> (dirs \cup {directory}) \ {directory}, cwd |-> dir]

InitBuilder ==
    /\ A = NewDCP
    /\ B = NewDCP
    /\ disk = EmptyDirectory
    /\ notes = NewNotes
    /\ uuids = 0
    /\ last = Last("init", "none", FALSE, FALSE, 0, 0)
    /\ rdirs = <<>>
    /\ InitChain

\* the state after the constructor has ended with the outcome c: an exception
\* leaves no new object
NewSelfSignedEnded(c, failAt) ==
    /\ certs' = IF c.built THEN c.certificates ELSE certs
    /\ key' = IF c.built THEN c.key ELSE key
    /\ tmp' = c.tmp
    /\ cwd' = c.cwd
    /\ last' = [Last("new_self_signed", c.threw, FALSE, FALSE, 0, 0) EXCEPT
                   !.result = [directory |-> c.directory, failAt |-> failAt]]

\* chain = CertificateChain (openssl, organisation, ...)
NewSelfSigned(failAt) ==
    /\ uuids < MaxBuilds
    /\ uuids' = uuids + 1
    /\ NewSelfSignedEnded(CertificateChain_new(failAt, uuids, tmp, cwd), failAt)
    /\ UNCHANGED <<A, B, disk, notes, rdirs, signedDoc, obj>>

NextBuilder == \E failAt \in FailAts : NewSelfSigned(failAt)

SpecBuilder == InitBuilder /\ [][NextBuilder]_vars

----------------------------------------------------------------------------
(* C10 *)

\* C10: when the constructor that makes a self-signed chain has ended, by a
\* return or by an exception from one of its steps, its scratch directory no
\* longer exists.
C10_ScratchDirectoryRemoved ==
    last.op = "new_self_signed" => last.result.directory \notin tmp

----------------------------------------------------------------------------
(* Reel assets on their own (reel_asset.cc): a caller makes a ReelAsset from *)
(* an asset and an entry point, or a CPL parser makes it from an XML node,   *)
(* and asks for its actual duration.                                         *)

MaxDuration == 3    \* the greatest number of frames in a node or an asset, but for 24

Durations == (0..MaxDuration) \cup {24}
OptDurations == {None} \cup {Some(n) : n \in Durations}

\* DCP_ASSERT (!_entry_point || *_entry_point <= _intrinsic_duration) of the constructor
ReelAsset_new_asserts(intrinsic_duration, entry_point) ==
    ~IsSome(entry_point) \/ Get(entry_point) <= intrinsic_duration

\* the node of a reel asset as a CPL file can hold it
ReelAssetNode(intrinsic_duration, entry_point, duration) ==
    [Id |-> 11,
     kind |-> "picture",
     AnnotationText |-> None,
     EditRate |-> Fraction_as_string(<<24, 1>>),
     IntrinsicDuration |-> raw_convert_string(intrinsic_duration),
     EntryPoint |-> optional_number_to_xml(entry_point),
     Duration |-> optional_number_to_xml(duration)]

InitReelAsset ==
    /\ A = NewDCP
    /\ B = NewDCP
    /\ disk = EmptyDirectory
    /\ notes = NewNotes
    /\ uuids = 0
    /\ last = Last("init", "none", FALSE, FALSE, 0, 0)
    /\ rdirs = <<>>
    /\ InitChain

\* make_shared<ReelMonoPictureAsset> (asset, entry_point): a failed assertion
\* leaves the caller without a new object
NewReelAsset(intrinsic_duration, entry_point) ==
    /\ IF ReelAsset_new_asserts(intrinsic_duration, entry_point)
       THEN /\ obj' = Some(ReelAsset_new([AssetOf(11) EXCEPT
                               !.intrinsic_duration = intrinsic_duration], entry_point))
            /\ last' = Last("new_reel_asset", "none", FALSE, FALSE, 0, 0)
       ELSE /\ obj' = obj
            /\ last' = Last("new_reel_asset", "ProgrammingError", FALSE, FALSE, 0, 0)
    /\ UNCHANGED <<dcpVars, certs, key, signedDoc, tmp, cwd>>

\* ReelAsset (node) for a node of a CPL file
ParseReelAsset(node) ==
    /\ obj' = Some(ReelAsset_from_node(node))
    /\ last' = Last("parse_reel_asset", "none", FALSE, FALSE, 0, 0)
    /\ UNCHANGED <<dcpVars, certs, key, signedDoc, tmp, cwd>>

\* asset->actual_duration ()
ActualDuration ==
    /\ IsSome(obj)
    /\ last' = [Last("actual_duration", "none", FALSE, FALSE, 0, 0)
                  EXCEPT !.result = Some(ReelAsset_actual_duration(Get(obj)))]
    /\ UNCHANGED <<dcpVars, chainVars>>

NextReelAsset ==
    \/ \E n \in Durations, e \in OptDurations : NewReelAsset(n, e)
    \/ \E n \in Durations, e \in OptDurations, d \in OptDurations :
          ParseReelAsset(ReelAssetNode(n, e, d))
    \/ ActualDuration

SpecReelAsset == InitReelAsset /\ [][NextReelAsset]_vars

----------------------------------------------------------------------------
(* C11 *)

\* C11: what actual_duration () returns is the Duration of the reel asset when it
\* has one, and otherwise its intrinsic duration less its entry point, an absent
\* entry point counting as 0
C11_ActualDuration ==
    last.op = "actual_duration" =>
        LET a == Get(obj) IN
        Get(last.result) =
            IF a.duration # None THEN a.duration[1]
            ELSE IF a.entry_point # None
                 THEN a.intrinsic_duration - a.entry_point[1]
                 ELSE a.intrinsic_duration

\* actual_duration () has answered for a reel asset without a Duration and with
\* an entry point after the first frame
C11_Witness ==
    /\ last.op = "actual_duration"
    /\ Get(obj).duration = None
    /\ Get(obj).entry_point # None
    /\ Get(obj).entry_point[1] > 0
    /\ Get(last.result) = Get(obj).intrinsic_duration - Get(obj).entry_point[1]

----------------------------------------------------------------------------
(* C12 *)

\* C12: every ReelAsset object, made by the constructor or parsed from a node,
\* has an entry point (when it has one) that is at most its intrinsic duration
C12_EntryPointWithinIntrinsicDuration ==
    (IsSome(obj) /\ IsSome(Get(obj).entry_point)) =>
        Get(Get(obj).entry_point) <= Get(obj).intrinsic_duration

----------------------------------------------------------------------------
(* The CPL as an object of its own (cpl.cc): its content versions, its       *)
(* version number and the metadata that write_xml puts into a                *)
(* CompositionMetadataAsset.  A ContentVersion is known by its id.           *)

MaxVersions == 2    \* the longest list given to set_content_versions

\* the members a new CPL has without a value
NoMetadata ==
    [version_number |-> None,
     main_sound_configuration |-> None,
     main_sound_sample_rate |-> None,
     main_picture_stored_area |-> None,
     main_picture_active_area |-> None]

\* CPL::set_version_number
CPL_set_version_number(cpl, v) ==
    IF v < 0 THEN [threw |-> "BadSettingError", cpl |-> cpl]
    ELSE [threw |-> "none", cpl |-> [cpl EXCEPT !.version_number = Some(v)]]

MutCPL_set_content_versions(cpl, v) ==
    [threw |-> IF \E i, j \in 1..Len(v) : i < j /\ v[i] = v[j]
               THEN "DuplicateIdError" ELSE "none",
     cpl |-> [cpl EXCEPT !.content_versions = v]]

\* CPL::set_content_versions: the ids are put into a set one by one, and the
\* list is taken only when none of them was in the set already
CPL_set_content_versions(cpl, v) ==
    IF \E i, j \in 1..Len(v) : i < j /\ v[i] = v[j]
    THEN [threw |-> "DuplicateIdError", cpl |-> cpl]
    ELSE [threw |-> "none", cpl |-> [cpl EXCEPT !.content_versions = v]]

\* CPL::content_version
CPL_content_version(cpl) ==
    IF cpl.content_versions = <<>>
    THEN [threw |-> "ProgrammingError", value |-> None]
    ELSE [threw |-> "none", value |-> Some(cpl.content_versions[1])]

\* CPL::maybe_write_composition_metadata_asset: the node it writes for a CPL
\* that has the four values and a main picture in its first reel
CompositionMetadataAssetNode(cpl) ==
    LET mp == Get(cpl.reels[1].main_picture) IN
    [EditRate |-> Fraction_as_string(mp.edit_rate),
     IntrinsicDuration |-> raw_convert_string(mp.intrinsic_duration),
     VersionNumber |-> optional_number_to_xml(cpl.version_number),
     AlternateContentVersionList |->
         IF Len(cpl.content_versions) > 1
         THEN Some(Tail(cpl.content_versions)) ELSE None,
     MainSoundConfiguration |-> Get(cpl.main_sound_configuration),
     MainSoundSampleRate |->
         <<raw_convert_string(Get(cpl.main_sound_sample_rate)), raw_convert_string(1)>>,
     MainPictureStoredArea |-> Fraction_as_string(Get(cpl.main_picture_stored_area)),
     MainPictureActiveArea |-> Fraction_as_string(Get(cpl.main_picture_active_area))]

MutMaybe_write_composition_metadata_asset(cpl) ==
    IF \/ cpl.main_sound_configuration = None
       \/ cpl.main_sound_sample_rate = None
       \/ cpl.main_picture_stored_area = None
       \/ cpl.main_picture_active_area = None
       \/ cpl.reels = <<>>
    THEN None
    ELSE IF cpl.reels[1].main_picture = None
         THEN Some([MainSoundConfiguration |-> Get(cpl.main_sound_configuration)])
         ELSE Some(CompositionMetadataAssetNode(cpl))

\* CPL::maybe_write_composition_metadata_asset: the node it adds to the asset
\* list, or nothing when a value is missing
maybe_write_composition_metadata_asset(cpl) ==
    IF \/ cpl.main_sound_configuration = None
       \/ cpl.main_sound_sample_rate = None
       \/ cpl.main_picture_stored_area = None
       \/ cpl.main_picture_active_area = None
       \/ cpl.reels = <<>>
       \/ cpl.reels[1].main_picture = None
    THEN None
    ELSE Some(CompositionMetadataAssetNode(cpl))

\* CPL::write_xml, the loop over the reels: each reel writes its asset list, and
\* the first one gets the metadata when the standard is SMPTE
CPL_write_xml_reels(cpl, standard) ==
    [i \in 1..Len(cpl.reels) |->
        Reel_write_to_cpl(cpl.reels[i]) @@
        [CompositionMetadataAsset |->
            IF i = 1 /\ standard = "SMPTE"
            THEN maybe_write_composition_metadata_asset(cpl) ELSE None]]

\* CPL::write_xml with the metadata of the CPL
CPL_write_xml_with_metadata(cpl, standard) ==
    IF cpl.content_versions = <<>>
    THEN CPL_write_xml(cpl, standard)
    ELSE [CPL_write_xml(cpl, standard) EXCEPT
            !.doc = Some([Get(@) EXCEPT !.ReelList = CPL_write_xml_reels(cpl, standard)])]

\* CPL::read_composition_metadata_asset
read_composition_metadata_asset(cpl, node) ==
    [cpl EXCEPT
        !.version_number = optional_number_child(node.VersionNumber),
        !.content_versions = IF IsSome(node.AlternateContentVersionList)
                             THEN @ \o Get(node.AlternateContentVersionList) ELSE @,
        !.main_sound_configuration = Some(node.MainSoundConfiguration),
        !.main_sound_sample_rate = Some(raw_convert_int(node.MainSoundSampleRate[1])),
        !.main_picture_stored_area = Some(Fraction_from_string(node.MainPictureStoredArea)),
        !.main_picture_active_area = Some(Fraction_from_string(node.MainPictureActiveArea))]

\* CPL::CPL (file) with the metadata of the first reel's asset list
CPL_from_file_with_metadata(path, f) ==
    IF CPL_from_file(path, f).threw # "none"
    THEN CPL_from_file(path, f)
    ELSE [threw |-> "none",
          cpl |-> Some(IF f.ReelList # <<>> /\ IsSome(f.ReelList[1].CompositionMetadataAsset)
                       THEN read_composition_metadata_asset(
                                Get(CPL_from_file(path, f).cpl) @@ NoMetadata,
                                Get(f.ReelList[1].CompositionMetadataAsset))
                       ELSE Get(CPL_from_file(path, f).cpl) @@ NoMetadata)]

\* a reel with a main sound and no main picture
SoundReel == Reel_new(None, Some(ReelAsset_new(AssetOf(12), Some(0))))

CplReelLists == {<<>>, <<Reel1, Reel2>>, <<SoundReel, Reel1>>}

VersionNumbers == {-1, 1}

\* the ids of the content versions a caller has
VersionIds == {1, 2}

\* the lists a caller gives to set_content_versions
VersionLists == UNION {[1..n -> VersionIds] : n \in 0..MaxVersions}

\* the values the caller gives to the four setters of the metadata
MetadataValues ==
    [main_sound_configuration |-> "51/L,R,C,LFE,Ls,Rs",
     main_sound_sample_rate |-> 48,
     main_picture_stored_area |-> <<2, 1>>,
     main_picture_active_area |-> <<2, 1>>]

\* a new CPL with two reels, and the same with all its metadata set
PlainCpl == AddReels(CPL_new(1, "a", "FEATURE"), <<Reel1, Reel2>>) @@ NoMetadata
MetadataCpl ==
    [PlainCpl EXCEPT
        !.version_number = Some(1),
        !.content_versions = <<1, 2>>,
        !.main_sound_configuration = Some(MetadataValues.main_sound_configuration),
        !.main_sound_sample_rate = Some(MetadataValues.main_sound_sample_rate),
        !.main_picture_stored_area = Some(MetadataValues.main_picture_stored_area),
        !.main_picture_active_area = Some(MetadataValues.main_picture_active_area)]

\* CPL files of both standards, as write_xml makes them, with and without the
\* ContentVersion element
CplFiles ==
    {[Get(CPL_write_xml_with_metadata(c, standard).doc) EXCEPT !.ContentVersion = cv] :
        c \in {PlainCpl, MetadataCpl}, standard \in Standards, cv \in {None, Some(1)}}

InitCpl ==
    /\ A = NewDCP
    /\ B = NewDCP
    /\ disk = EmptyDirectory
    /\ notes = NewNotes
    /\ uuids = 0
    /\ last = Last("init", "none", FALSE, FALSE, 0, 0)
    /\ rdirs = <<>>
    /\ InitChain

\* how a call on the caller's CPL ended: the object it leaves and the outcome
CplCallEnded(op, threw, cpl, arg, result) ==
    /\ obj' = cpl
    /\ last' = [Last(op, threw, FALSE, FALSE, 0, 0) EXCEPT !.arg = arg, !.result = result]
    /\ UNCHANGED <<dcpVars, certs, key, signedDoc, tmp, cwd>>

\* make_shared<CPL> (annotation_text, content_kind) and CPL::add for each reel
NewCpl(reels) ==
    /\ obj' = Some(AddReels(CPL_new(1, "a", "FEATURE"), reels) @@ NoMetadata)
    /\ last' = Last("new_cpl", "none", FALSE, FALSE, 0, 0)
    /\ UNCHANGED <<dcpVars, certs, key, signedDoc, tmp, cwd>>

\* make_shared<CPL> (file): an exception leaves the caller without a new object
ParseCpl(f) ==
    /\ obj' = IF CPL_from_file_with_metadata(cpl_path(f.Id), f).threw = "none"
              THEN CPL_from_file_with_metadata(cpl_path(f.Id), f).cpl ELSE obj
    /\ last' = Last("parse_cpl", CPL_from_file_with_metadata(cpl_path(f.Id), f).threw,
                    FALSE, FALSE, 0, 0)
    /\ UNCHANGED <<dcpVars, certs, key, signedDoc, tmp, cwd>>

\* cpl->set_version_number (v)
SetVersionNumber(v) ==
    /\ IsSome(obj)
    /\ CplCallEnded("set_version_number", CPL_set_version_number(Get(obj), v).threw,
                    Some(CPL_set_version_number(Get(obj), v).cpl), Some(v), <<>>)

\* cpl->set_content_versions (v)
SetContentVersions(v) ==
    /\ IsSome(obj)
    /\ CplCallEnded("set_content_versions", CPL_set_content_versions(Get(obj), v).threw,
                    Some(CPL_set_content_versions(Get(obj), v).cpl), Some(v), <<>>)

\* cpl->set_main_sound_configuration, set_main_sound_sample_rate,
\* set_main_picture_stored_area, set_main_picture_active_area
SetMetadata(field) ==
    /\ IsSome(obj)
    /\ CplCallEnded("set_metadata", "none",
                    Some([Get(obj) EXCEPT ![field] = Some(MetadataValues[field])]),
                    Some(field), <<>>)

\* cpl->content_version ()
ContentVersion ==
    /\ IsSome(obj)
    /\ CplCallEnded("content_version", CPL_content_version(Get(obj)).threw, obj,
                    <<>>, CPL_content_version(Get(obj)).value)

\* cpl->write_xml (file, standard, signer) without a signer
WriteXmlCpl(standard) ==
    /\ IsSome(obj)
    /\ CplCallEnded("write_xml", CPL_write_xml_with_metadata(Get(obj), standard).threw,
                    Some(CPL_write_xml_with_metadata(Get(obj), standard).cpl),
                    Some(standard), CPL_write_xml_with_metadata(Get(obj), standard).doc)

NextCpl ==
    \/ \E reels \in CplReelLists : NewCpl(reels)
    \/ \E f \in CplFiles : ParseCpl(f)
    \/ \E v \in VersionNumbers : SetVersionNumber(v)
    \/ \E v \in VersionLists : SetContentVersions(v)
    \/ \E field \in DOMAIN MetadataValues : SetMetadata(field)
    \/ ContentVersion
    \/ \E standard \in Standards : WriteXmlCpl(standard)

SpecCpl == InitCpl /\ [][NextCpl]_vars

----------------------------------------------------------------------------
(* C13 *)

\* C13: a CPL object holds at least one ContentVersion at all times, so that
\* content_version () and write_xml never fail their assertion
C13_AlwaysAContentVersion ==
    /\ IsSome(obj) => Get(obj).content_versions # <<>>
    /\ last.op \in {"content_version", "write_xml"} => last.threw # "ProgrammingError"

----------------------------------------------------------------------------
(* C14 *)

\* C14: set_version_number with a negative number and set_content_versions with
\* a list that holds an id twice end with an error, and leave the CPL, its version
\* number and its content versions among the rest, as it was before the call
C14_FailedSetterLeavesCpl ==
    [][((\/ last'.op = "set_version_number" /\ Get(last'.arg) < 0
         \/ /\ last'.op = "set_content_versions"
            /\ \E i, j \in 1..Len(Get(last'.arg)) :
                  i < j /\ Get(last'.arg)[i] = Get(last'.arg)[j])
        => (last'.threw # "none" /\ obj' = obj))]_vars

\* set_content_versions has refused a list with an id twice that differs from the
\* list of the CPL
C14_Witness ==
    /\ last.op = "set_content_versions"
    /\ last.threw = "DuplicateIdError"
    /\ Get(last.arg) = <<2, 2>>
    /\ Get(obj).content_versions = <<1>>

----------------------------------------------------------------------------
(* C15 *)

\* C15: write_xml for SMPTE puts a CompositionMetadataAsset into the asset list
\* of the first reel whenever any of the four values (main sound configuration,
\* main sound sample rate, main picture stored area, main picture active area)
\* is set; for Interop and in the other reels it never writes one
C15_MetadataWhenAnySet ==
    (last.op = "write_xml" /\ last.threw = "none") =>
        LET doc == Get(last.result)
            cpl == Get(obj)
        IN
        /\ ( /\ Get(last.arg) = "SMPTE"
             /\ cpl.reels # <<>>
             /\ \/ cpl.main_sound_configuration # None
                \/ cpl.main_sound_sample_rate # None
                \/ cpl.main_picture_stored_area # None
                \/ cpl.main_picture_active_area # None )
           => doc.ReelList[1].CompositionMetadataAsset # None
        /\ \A i \in 1..Len(doc.ReelList) :
              (Get(last.arg) = "INTEROP" \/ i > 1)
              => doc.ReelList[i].CompositionMetadataAsset = None

\* C15 as the code has it: write_xml puts a CompositionMetadataAsset into the
\* asset list of a reel exactly when the reel is the first one, the standard is
\* SMPTE, all four values are set and the first reel has a main picture
C15_MetadataWhenAllSet ==
    (last.op = "write_xml" /\ last.threw = "none") =>
        LET doc == Get(last.result)
            cpl == Get(obj)
        IN
        \A i \in 1..Len(doc.ReelList) :
            doc.ReelList[i].CompositionMetadataAsset # None
            <=> /\ i = 1
                /\ Get(last.arg) = "SMPTE"
                /\ cpl.main_sound_configuration # None
                /\ cpl.main_sound_sample_rate # None
                /\ cpl.main_picture_stored_area # None
                /\ cpl.main_picture_active_area # None
                /\ cpl.reels[1].main_picture # None

\* write_xml for SMPTE has written the metadata into the first of two reels
C15_Witness ==
    /\ last.op = "write_xml"
    /\ last.threw = "none"
    /\ Get(last.arg) = "SMPTE"
    /\ Len(Get(last.result).ReelList) = 2
    /\ Get(last.result).ReelList[1].CompositionMetadataAsset # None
    /\ Get(last.result).ReelList[2].CompositionMetadataAsset = None

----------------------------------------------------------------------------
(* Decrypted KDMs (dcp.cc, cpl.cc): a KDM is a list of keys, each with the   *)
(* id of its CPL, its own id and the key itself.  An encrypted reel asset    *)
(* knows the id of its key, and its asset has the key once one was set.      *)

MaxKeys == 2    \* the most keys a KDM holds

KeyIds == {21, 22}
KeyValues == {1, 2}

\* DecryptedKDMKey
KdmKeys == [cpl_id : CplIds, id : KeyIds, key : KeyValues]

\* DecryptedKDM::keys () of the KDMs a caller has
Kdms == UNION {[1..n -> KdmKeys] : n \in 1..MaxKeys}

\* a reel asset of an encrypted asset that has no key yet
EncryptedReelAsset(id, key_id) ==
    ReelAsset_new(AssetOf(id), Some(0)) @@ [key_id |-> Some(key_id), key |-> None]

\* a package as DCP::read leaves it: two CPLs, the first with an encrypted
\* picture and an encrypted sound, the second with an encrypted sound
EncryptedDCP ==
    [NewDCP EXCEPT !.cpls =
        <<CPL_add_reel(CPL_new(1, "a", "FEATURE"),
                       Reel_new(Some(EncryptedReelAsset(11, 21)),
                                Some(EncryptedReelAsset(12, 22)))),
          CPL_add_reel(CPL_new(2, "b", "TRAILER"),
                       Reel_new(None, Some(EncryptedReelAsset(13, 21))))>>]

\* Reel::add (kdm), one key and one asset: the key goes to the asset when the
\* asset's key id is the id of the key
ReelMXF_add_key(x, k) ==
    IF IsSome(x) /\ Get(x).key_id = Some(k.id)
    THEN Some([Get(x) EXCEPT !.key = Some(k.key)])
    ELSE x

\* Reel::add (kdm): every key of the KDM is offered to every asset of the reel
RECURSIVE Reel_add_kdm(_, _)
Reel_add_kdm(reel, keys) ==
    IF keys = <<>> THEN reel
    ELSE Reel_add_kdm([main_picture |-> ReelMXF_add_key(reel.main_picture, Head(keys)),
                       main_sound |-> ReelMXF_add_key(reel.main_sound, Head(keys))],
                      Tail(keys))

\* CPL::add (kdm)
CPL_add_kdm(cpl, kdm) ==
    [cpl EXCEPT !.reels = [i \in 1..Len(cpl.reels) |-> Reel_add_kdm(cpl.reels[i], kdm)]]

\* DCP::add (kdm), the inner loop: one CPL::add (kdm) for each key of the CPL
RECURSIVE AddForKeys(_, _, _)
AddForKeys(cpl, keys, kdm) ==
    IF keys = <<>> THEN cpl
    ELSE AddForKeys(IF Head(keys).cpl_id = cpl.id THEN CPL_add_kdm(cpl, kdm) ELSE cpl,
                    Tail(keys), kdm)

MutDCP_add_kdm(dcp, kdm) ==
    [dcp EXCEPT !.cpls = [i \in 1..Len(dcp.cpls) |-> CPL_add_kdm(dcp.cpls[i], kdm)]]

\* DCP::add (kdm)
DCP_add_kdm(dcp, kdm) ==
    [dcp EXCEPT !.cpls = [i \in 1..Len(dcp.cpls) |-> AddForKeys(dcp.cpls[i], kdm, kdm)]]

InitKdm ==
    /\ A = EncryptedDCP
    /\ B = NewDCP
    /\ disk = EmptyDirectory
    /\ notes = NewNotes
    /\ uuids = 0
    /\ last = Last("init", "none", FALSE, FALSE, 0, 0)
    /\ rdirs = <<>>
    /\ InitChain

\* d.add (kdm)
AddKdm(kdm) ==
    /\ A' = DCP_add_kdm(A, kdm)
    /\ last' = [Last("add_kdm", "none", FALSE, FALSE, 0, 0) EXCEPT !.arg = Some(kdm)]
    /\ UNCHANGED <<B, disk, notes, uuids, rdirs>>
    /\ UNCHANGED chainVars

NextKdm == \E kdm \in Kdms : AddKdm(kdm)

SpecKdm == InitKdm /\ [][NextKdm]_vars

----------------------------------------------------------------------------
(* C16 *)

\* C16: DCP::add (kdm) leaves the package in a state that a second DCP::add of
\* the same KDM does not change, and in which every CPL that a key of the KDM
\* names is as one CPL::add (kdm) would have left it, however many keys name it
C16_AddKdmIdempotent ==
    [][last'.op = "add_kdm" =>
         /\ DCP_add_kdm(A', Get(last'.arg)) = A'
         /\ \A i \in 1..Len(A.cpls) :
               A'.cpls[i] =
                   IF \E n \in 1..Len(Get(last'.arg)) : Get(last'.arg)[n].cpl_id = A.cpls[i].id
                   THEN CPL_add_kdm(A.cpls[i], Get(last'.arg)) ELSE A.cpls[i]]_vars

\* a KDM with two keys for the first CPL has been added to a package whose
\* picture had another key before, and the picture and the sound have their keys
C16_Witness ==
    /\ last.op = "add_kdm"
    /\ Len(Get(last.arg)) = 2
    /\ \A n \in 1..2 : Get(last.arg)[n].cpl_id = 1
    /\ Get(last.arg)[1].id = 21 /\ Get(last.arg)[2].id = 22
    /\ Get(A.cpls[1].reels[1].main_picture).key = Some(Get(last.arg)[1].key)
    /\ Get(A.cpls[1].reels[1].main_sound).key = Some(Get(last.arg)[2].key)
    /\ Get(A.cpls[2].reels[1].main_sound).key = Some(2)

----------------------------------------------------------------------------
(* dcp::verify for one package whose assets are there (verify.cc): the       *)
(* hashes of a resolved asset, what the asset says of itself, the durations  *)
(* in a reel, and the annotation texts of the packing lists.                 *)

\* the node of a reel asset in a CPL file, with a <Hash> or without
CheckedReelNode(id, entry_point, hash) ==
    IF IsSome(hash)
    THEN ReelAsset_write_to_cpl(ReelAsset_new([AssetOf(11) EXCEPT !.id = id], Some(entry_point)))
         @@ [Hash |-> make_digest(Get(hash))]
    ELSE ReelAsset_write_to_cpl(ReelAsset_new([AssetOf(11) EXCEPT !.id = id], Some(entry_point)))

\* how the package differs from a sound one: which asset of the reel is in the
\* package, the hash the CPL gives for it, the content of its file (the packing
\* list has the hash of content 0), what the asset says of itself, and the entry
\* point of the other asset of the reel (the asset in the package has 0)
Variations ==
    [which : {"picture", "sound"},
     cpl_hash : {None, Some(0), Some(1)},
     content : {0, 1},
     size : {<<2048, 858>>, <<4096, 1716>>, <<1920, 1080>>},
     edit_rate : {<<24, 1>>, <<30, 1>>},
     sampling_rate : {48000, 96000},
     entry_point : {0, 1}]

\* the kinds of the entries of a package with one CPL and its assets
AssetKinds(standard, which) ==
    [e \in EntryIds |->
        IF e = 1
        THEN [file |-> IF standard = "SMPTE" THEN "cpl_smpte" ELSE "cpl_interop",
              type |-> Some(CPL_static_pkl_type(standard))]
        ELSE [file |-> "mxf",
              type |-> Some(IF which = "picture" THEN PictureAsset_static_pkl_type(standard)
                            ELSE SoundAsset_static_pkl_type(standard))]]

\* a package with one CPL of one reel: the picture or the sound of the reel is
\* entry 2 of the package, the other asset of the reel is not in the package
AssetDirectory(standard, v) ==
    [ForeignDirectory(standard, FirstOrder, AssetKinds(standard, v.which)) EXCEPT
        ![cpl_path(1)].ReelList =
            <<[MainPicture |-> Some(IF v.which = "picture"
                                    THEN CheckedReelNode(2, 0, v.cpl_hash)
                                    ELSE CheckedReelNode(11, v.entry_point, None)),
               MainSound |-> Some(IF v.which = "sound"
                                  THEN CheckedReelNode(2, 0, v.cpl_hash)
                                  ELSE CheckedReelNode(12, v.entry_point, None))]>>,
        ![mxf_path(2)] = [@ EXCEPT !.essence = v.which, !.content = v.content,
                                   !.size = v.size, !.edit_rate = v.edit_rate,
                                   !.sampling_rate = v.sampling_rate]]

AssetDirectories == {AssetDirectory(standard, v) : standard \in Standards, v \in Variations}

\* a package with two CPLs, "a" in the first packing list and "b" in the second,
\* and the annotation texts of the packing lists
TwoCplDirectory(standard, texts) ==
    [ForeignDirectory(standard, FirstOrder,
                      [AssetKinds(standard, "picture") EXCEPT
                          ![2] = AssetKinds(standard, "picture")[1]]) EXCEPT
        ![cpl_path(2)].ContentTitleText = "b",
        ![cpl_path(2)].AnnotationText = Some("b"),
        ![pkl_path(PklIdBase + 1)].AnnotationText = Some(texts[1]),
        ![pkl_path(PklIdBase + 2)].AnnotationText = Some(texts[2])]

TwoCplDirectories ==
    {TwoCplDirectory(standard, texts) : standard \in Standards, texts \in {"a", "b"} \X {"a", "b"}}

CheckedDirectories == AssetDirectories \cup TwoCplDirectories

InitVerifyPackage ==
    /\ A = NewDCP
    /\ B = NewDCP
    /\ disk = EmptyDirectory
    /\ notes = NewNotes
    /\ uuids = 0
    /\ last = Last("init", "none", FALSE, FALSE, 0, 0)
    /\ \E d \in CheckedDirectories : rdirs = <<d>>
    /\ InitChain

\* dcp::verify for the package that was given
SpecVerifyPackage == InitVerifyPackage /\ [][NextVerify]_vars

\* the package as dcp->read leaves it in the turn of dcp::verify for directory d
LoadedDcp(d) == DCP_read(NewDCP, d, NewNotes).dcp

\* whether the notes hold a note with this code for this id
HasNote(list, code, id) == \E k \in 1..Len(list) : list[k].code = code /\ list[k].at = id

\* the reel assets of a loaded package that are resolved main pictures (or main
\* sounds), each with the node of the CPL file it was made of
ResolvedMains(d, dcp, which) ==
    {[asset |-> Get(dcp.cpls[c].reels[r][which[1]]),
      node |-> Get(d[Get(dcp.cpls[c].file)].ReelList[r][which[2]])] :
        <<c, r>> \in {cr \in (1..Len(dcp.cpls)) \X (1..2) :
                        /\ cr[2] <= Len(dcp.cpls[cr[1]].reels)
                        /\ IsSome(dcp.cpls[cr[1]].reels[cr[2]][which[1]])
                        /\ Get(dcp.cpls[cr[1]].reels[cr[2]][which[1]]).resolved}}

\* the hash the packing lists of the loaded package give for asset id
PklHashOf(d, id) == FindPklHash(LoadedDcp(d).pkls, id)

\* the file of a resolved asset does not have the hash the packing list gives
FileHashDiffers(d, m) ==
    Some(make_digest(d[mxf_path(m.asset.id)].content)) # PklHashOf(d, m.asset.id)

\* the CPL gives a hash for a resolved asset, and not the one of the packing list
CplHashDiffers(d, m) ==
    /\ "Hash" \in DOMAIN m.node
    /\ Some(m.node.Hash) # PklHashOf(d, m.asset.id)

----------------------------------------------------------------------------
(* C17 *)

\* C17: for every resolved main picture or main sound, dcp::verify reports each
\* integrity violation that occurs: INCORRECT_PICTURE_HASH / INCORRECT_SOUND_HASH
\* whenever the hash of the file differs from the hash in the PKL, and
\* MISMATCHED_PICTURE_HASHES / MISMATCHED_SOUND_HASHES whenever the hash the CPL
\* gives for the asset differs from the one of the PKL.
C17_EveryHashViolationReported ==
    last.op = "verify" =>
        \A i \in 1..Len(rdirs) :
            /\ \A m \in ResolvedMains(rdirs[i], LoadedDcp(rdirs[i]), <<"main_picture", "MainPicture">>) :
                /\ FileHashDiffers(rdirs[i], m) =>
                       HasNote(last.groups[i], "INCORRECT_PICTURE_HASH", m.asset.id)
                /\ CplHashDiffers(rdirs[i], m) =>
                       HasNote(last.groups[i], "MISMATCHED_PICTURE_HASHES", m.asset.id)
            /\ \A m \in ResolvedMains(rdirs[i], LoadedDcp(rdirs[i]), <<"main_sound", "MainSound">>) :
                /\ FileHashDiffers(rdirs[i], m) =>
                       HasNote(last.groups[i], "INCORRECT_SOUND_HASH", m.asset.id)
                /\ CplHashDiffers(rdirs[i], m) =>
                       HasNote(last.groups[i], "MISMATCHED_SOUND_HASHES", m.asset.id)

----------------------------------------------------------------------------
(* C18 *)

\* some reel of some CPL of the loaded package holds two assets with different
\* actual durations
SomeReelDurationsDiffer(dcp) ==
    \E c \in 1..Len(dcp.cpls) : \E r \in 1..Len(dcp.cpls[c].reels) :
        \E x, y \in SeqToSet(Reel_mxfs(dcp.cpls[c].reels[r])) :
            ReelAsset_actual_duration(x) # ReelAsset_actual_duration(y)

\* C18: dcp::verify of a SMPTE package returns a MISMATCHED_ASSET_DURATION note
\* whenever a reel of a CPL of the package holds two assets with different
\* actual_duration; without such a reel it returns no such note, so a package
\* without the note has the same actual_duration for all assets of each reel.
C18_DurationsAgreeOrNote ==
    last.op = "verify" =>
        \A i \in 1..Len(rdirs) :
            LoadedDcp(rdirs[i]).standard = Some("SMPTE") =>
                (HasNote(last.groups[i], "MISMATCHED_ASSET_DURATION", 0)
                    <=> SomeReelDurationsDiffer(LoadedDcp(rdirs[i])))

C18_Witness ==
    /\ last.op = "verify"
    /\ Len(rdirs) = 1
    /\ LoadedDcp(rdirs[1]).standard = Some("SMPTE")
    /\ SomeReelDurationsDiffer(LoadedDcp(rdirs[1]))
    /\ HasNote(last.groups[1], "MISMATCHED_ASSET_DURATION", 0)

----------------------------------------------------------------------------
(* C19 *)

\* the notes of the Bv2.1 rules for what an asset says of itself
Bv21AssetCodes ==
    {"INVALID_PICTURE_SIZE_IN_PIXELS", "INVALID_PICTURE_FRAME_RATE_FOR_2K",
     "INVALID_PICTURE_FRAME_RATE_FOR_4K", "INVALID_SOUND_FRAME_RATE"}

\* C19: the Bv2.1 rules of dcp::verify (picture size in pixels, 2K and 4K frame
\* rates, sound sampling rate, ...) apply to SMPTE packages only: for a package
\* whose standard is Interop none of their notes is emitted.
C19_NoBv21NotesForInterop ==
    last.op = "verify" =>
        \A i \in 1..Len(rdirs) :
            LoadedDcp(rdirs[i]).standard = Some("INTEROP") =>
                \A k \in 1..Len(last.groups[i]) : last.groups[i][k].code \notin Bv21AssetCodes

----------------------------------------------------------------------------
(* C20 *)

\* the CPLs of the loaded package that the packing list references
CplsOfPkl(dcp, pkl) ==
    {c \in 1..Len(dcp.cpls) :
        \E j \in 1..Len(pkl.asset_list) : pkl.asset_list[j].Id = dcp.cpls[c].id}

\* C20: dcp::verify emits MISMATCHED_PKL_ANNOTATION_TEXT_WITH_CPL for a PKL if
\* and only if that PKL references exactly one of the CPLs of the package and the
\* AnnotationText of the PKL differs from the ContentTitleText of that CPL, for
\* packages with any number of CPLs and PKLs.
C20_PklAnnotationNoteExact ==
    last.op = "verify" =>
        \A i \in 1..Len(rdirs) :
            LET dcp == LoadedDcp(rdirs[i]) IN
            \A p \in 1..Len(dcp.pkls) :
                HasNote(last.groups[i], "MISMATCHED_PKL_ANNOTATION_TEXT_WITH_CPL", dcp.pkls[p].id)
                <=> /\ Cardinality(CplsOfPkl(dcp, dcp.pkls[p])) = 1
                    /\ \E c \in CplsOfPkl(dcp, dcp.pkls[p]) :
                          rdirs[i][Get(dcp.pkls[p].file)].AnnotationText
                              # Some(dcp.cpls[c].content_title_text)

----------------------------------------------------------------------------
(* dcp::verify for the closed captions of the reels of one CPL (verify.cc):  *)
(* the fewest and the most closed captions a reel has.                       *)

MaxCaptionReels == 3

\* SIZE_MAX of size_t; the model needs it above every size only
SIZE_MAX == 2147483647

\* what reel->closed_captions () can be: the ids of the closed captions
CaptionLists == {<<>>, <<31>>, <<31, 32>>}

RECURSIVE SeqsUpTo(_, _)
\* the sequences over S of length n at most
SeqsUpTo(S, n) ==
    IF n = 0 THEN {<<>>}
    ELSE SeqsUpTo(S, n - 1) \cup {Append(q, x) : q \in {t \in SeqsUpTo(S, n - 1) : Len(t) = n - 1}, x \in S}

CaptionReelLists == SeqsUpTo([closed_captions : CaptionLists], MaxCaptionReels)

RECURSIVE fewest_closed_captions(_, _)
\* fewest_closed_captions after the loop over the reels, from the value before it
fewest_closed_captions(reels, fewest) ==
    IF reels = <<>> THEN fewest
    ELSE fewest_closed_captions(Tail(reels),
             IF Len(Head(reels).closed_captions) < fewest
             THEN Len(Head(reels).closed_captions) ELSE fewest)

RECURSIVE most_closed_captions(_, _)
\* most_closed_captions after the loop over the reels, from the value before it
most_closed_captions(reels, most) ==
    IF reels = <<>> THEN most
    ELSE most_closed_captions(Tail(reels),
             IF Len(Head(reels).closed_captions) > most
             THEN Len(Head(reels).closed_captions) ELSE most)

\* the note of dcp::verify for the closed caption counts of the reels of a CPL
verify_closed_caption_counts(standard, reels) ==
    IF standard = "SMPTE"
       /\ fewest_closed_captions(reels, SIZE_MAX) # most_closed_captions(reels, 0)
    THEN <<Note("VERIFY_BV21_ERROR", "MISMATCHED_CLOSED_CAPTION_ASSET_COUNTS", 0)>>
    ELSE <<>>

InitCaptions ==
    /\ A = NewDCP
    /\ B = NewDCP
    /\ disk = EmptyDirectory
    /\ notes = NewNotes
    /\ uuids = 0
    /\ last = Last("init", "none", FALSE, FALSE, 0, 0)
    /\ rdirs = <<>>
    /\ InitChain

\* a CPL of a package of the given standard, with its reels, as DCP::read made it
LoadCaptionCpl(standard, reels) ==
    /\ obj' = Some([standard |-> standard, reels |-> reels])
    /\ last' = Last("load_cpl", "none", FALSE, FALSE, 0, 0)
    /\ UNCHANGED <<dcpVars, certs, key, signedDoc, tmp, cwd>>

\* the turn of dcp::verify for the CPL
VerifyCaptionCounts ==
    /\ IsSome(obj)
    /\ last' = [Last("verify_cpl", "none", FALSE, FALSE, 0, 0) EXCEPT
                   !.result = verify_closed_caption_counts(Get(obj).standard, Get(obj).reels)]
    /\ UNCHANGED <<dcpVars, chainVars>>

NextCaptions ==
    \/ \E standard \in Standards, reels \in CaptionReelLists : LoadCaptionCpl(standard, reels)
    \/ VerifyCaptionCounts

SpecCaptions == InitCaptions /\ [][NextCaptions]_vars

----------------------------------------------------------------------------
(* C21 *)

\* C21: dcp::verify of a SMPTE CPL emits MISMATCHED_CLOSED_CAPTION_ASSET_COUNTS
\* if and only if two reels of the CPL hold different numbers of closed captions;
\* a CPL with an empty reel list is verified without failure and gets no such note.
C21_CaptionCountsNoteExact ==
    (last.op = "verify_cpl" /\ Get(obj).standard = "SMPTE") =>
        /\ last.threw = "none"
        /\ HasNote(last.result, "MISMATCHED_CLOSED_CAPTION_ASSET_COUNTS", 0)
           <=> \E i, j \in 1..Len(Get(obj).reels) :
                  Len(Get(obj).reels[i].closed_captions) # Len(Get(obj).reels[j].closed_captions)

----------------------------------------------------------------------------
(* CertificateChain::remove (int) (certificate_chain.cc).                    *)

RECURSIVE List_erase_at(_, _)
\* CertificateChain::remove (int i): the iterator j goes on from begin () while
\* it is not at the end and i > 0, and what it stops at, if anything, is erased
List_erase_at(list, i) ==
    IF list = <<>> THEN <<>>
    ELSE IF i > 0 THEN <<Head(list)>> \o List_erase_at(Tail(list), i - 1)
    ELSE Tail(list)

\* chain.remove (i)
RemoveCertificateAt(i) ==
    /\ certs' = List_erase_at(certs, i)
    /\ signedDoc' = NoDoc
    /\ last' = [Last("remove_at", "none", FALSE, FALSE, 0, 0) EXCEPT !.arg = <<i>>]
    /\ UNCHANGED <<key, tmp, cwd, obj>>
    /\ UNCHANGED dcpVars

NextChainRemove ==
    \/ \E c \in Certificates : AddCertificate(c)
    \/ \E i \in 0..MaxCerts : RemoveCertificateAt(i)

SpecChainRemove == InitSpecChain /\ [][NextChainRemove]_vars

----------------------------------------------------------------------------
(* C26 *)

\* C26: CertificateChain::remove (int i) removes the certificate at position i of
\* the root-to-leaf ordering of the chain, whatever the order in which the
\* certificates were added; an index past the end of the list removes nothing.
C26_RemovesByRootToLeafPosition ==
    [][(last'.op = "remove_at" /\ root_to_leaf(certs).threw = "none") =>
          IF last'.arg[1] < Len(certs)
          THEN SeqToSet(certs') = SeqToSet(certs) \ {root_to_leaf(certs).rtl[last'.arg[1] + 1]}
          ELSE certs' = certs]_vars

----------------------------------------------------------------------------
(* C27 *)

\* C27: DCP::read is idempotent on one DCP object: a second read for an unchanged
\* directory leaves cpls () and pkls () with the same contents as after the first
\* call, with no CPL or PKL listed twice.
C27_ReadIdempotent ==
    [][(last.op = "read" /\ last.threw = "none" /\ last'.op = "read" /\ disk' = disk) =>
          /\ last'.threw = "none"
          /\ A'.cpls = A.cpls
          /\ A'.pkls = A.pkls]_vars

----------------------------------------------------------------------------
(* DCP::equals for two packages that callers have built (dcp.cc).            *)

\* EqualityOptions with either text allowed to differ or not
EqualityOptionsSet ==
    [cpl_annotation_texts_can_differ : BOOLEAN, reel_annotation_texts_can_differ : BOOLEAN]

InitEquals ==
    /\ A = NewDCP
    /\ B = NewDCP
    /\ disk = EmptyDirectory
    /\ notes = NewNotes
    /\ uuids = 0
    /\ last = Last("init", "none", FALSE, FALSE, 0, 0)
    /\ rdirs = <<>>
    /\ InitChain

\* a.add (cpl) with a new CPL: its id is the next new one of the package
AddToA(tk, reels) ==
    /\ Len(A.cpls) < MaxCpls
    /\ A' = DCP_add(A, AddReels(CPL_new(Len(A.cpls) + 1, tk[1], tk[2]), reels))
    /\ last' = Last("add_a", "none", FALSE, FALSE, 0, 0)
    /\ UNCHANGED <<B, disk, notes, uuids, rdirs>>
    /\ UNCHANGED chainVars

\* b.add (cpl) with a new CPL
AddToB(tk, reels) ==
    /\ Len(B.cpls) < MaxCpls
    /\ B' = DCP_add(B, AddReels(CPL_new(Len(B.cpls) + 1, tk[1], tk[2]), reels))
    /\ last' = Last("add_b", "none", FALSE, FALSE, 0, 0)
    /\ UNCHANGED <<A, disk, notes, uuids, rdirs>>
    /\ UNCHANGED chainVars

\* a.equals (b, opt, note), b.equals (a, opt, note) and a.equals (a, opt, note)
Equals(opt) ==
    /\ last' = [Last("equals", "none", FALSE, FALSE, 0, 0) EXCEPT
                   !.arg = Some(opt),
                   !.result = [a_b |-> DCP_equals(A, B, opt),
                               b_a |-> DCP_equals(B, A, opt),
                               a_a |-> DCP_equals(A, A, opt)]]
    /\ UNCHANGED <<A, B, disk, notes, uuids, rdirs>>
    /\ UNCHANGED chainVars

NextEquals ==
    \/ \E tk \in TextsAndKinds, reels \in ReelLists : AddToA(tk, reels)
    \/ \E tk \in TextsAndKinds, reels \in ReelLists : AddToB(tk, reels)
    \/ \E opt \in EqualityOptionsSet : Equals(opt)

SpecEquals == InitEquals /\ [][NextEquals]_vars

\* the CPLs of a and of b can be matched one to one by CPL::equals
MatchedOneToOne(a, b, opt) ==
    /\ Len(a.cpls) = Len(b.cpls)
    /\ \E f \in Perms(1..Len(a.cpls)) :
          \A i \in 1..Len(a.cpls) : CPL_equals(b.cpls[f[i]], a.cpls[i], opt)

----------------------------------------------------------------------------
(* C28 *)

\* C28: DCP::equals is reflexive and symmetric: A.equals (A) is true, and for any
\* two packages A and B and any options A.equals (B) and B.equals (A) return the
\* same result, which is true only when the CPLs of A and of B can be matched one
\* to one by CPL::equals.
C28_EqualsReflexiveSymmetric ==
    last.op = "equals" =>
        /\ last.result.a_a
        /\ last.result.a_b = last.result.b_a
        /\ last.result.a_b => MatchedOneToOne(A, B, Get(last.arg))

----------------------------------------------------------------------------
(* dcp::verify: what a call keeps from one asset to the next (verify.cc).    *)
(* `State state` is made once in a call of dcp::verify and handed to every    *)
(* subtitle asset of every CPL of every directory; max_frame and risky_frame  *)
(* of verify_picture_asset_type are `static const`, one pair for each of the  *)
(* two instantiations (mono, stereo) in a process.                            *)

MaxStateDirs == 2
MaxStateCpls == 2
MaxVerifyCalls == 2

\* rint (n / d) for n >= 0 and d > 0: the nearest integer, the even one of two
\* that are equally near.  The quotients of the model are no such ties, and the
\* float of the code has them within 1/8 of their value
rint_div(n, d) ==
    IF 2 * (n % d) < d THEN n \div d
    ELSE IF 2 * (n % d) > d THEN (n \div d) + 1
    ELSE IF (n \div d) % 2 = 0 THEN n \div d ELSE (n \div d) + 1

\* rint (mbits * 1000000 / (8 * edit_rate.as_float ()))
frame_limit(mbits, edit_rate) == rint_div(mbits * 1000000 * edit_rate[2], 8 * edit_rate[1])

\* the statics of one instantiation once their initializers have run
FrameLimits(edit_rate) ==
    [max_frame |-> frame_limit(250, edit_rate), risky_frame |-> frame_limit(230, edit_rate)]

\* a process in which verify_picture_asset_type has not run
NoStatics == [mono |-> None, stereo |-> None]

RECURSIVE biggest_frame(_, _)
\* the loop over the frames: biggest_frame_size is the size of a mono frame and
\* the greater of left and right of a stereo frame (a frame is the tuple of its sizes)
biggest_frame(frames, biggest) ==
    IF frames = <<>> THEN biggest
    ELSE biggest_frame(Tail(frames), MaxOf({biggest} \cup SeqToSet(Head(frames))))

\* verify_picture_asset with the statics as they are: the result and the statics
\* after the call.  The initializers of the instantiation for the type of the
\* asset run the first time the instantiation gets an asset of its type
verify_picture_asset(statics, a) ==
    LET which == IF a.stereo THEN "stereo" ELSE "mono"
        limits == IF IsSome(statics[which]) THEN Get(statics[which]) ELSE FrameLimits(a.edit_rate)
    IN [statics |-> [statics EXCEPT ![which] = Some(limits)],
        result |-> IF biggest_frame(a.frames, 0) > limits.max_frame
                   THEN "VERIFY_PICTURE_ASSET_RESULT_BAD"
                   ELSE IF biggest_frame(a.frames, 0) > limits.risky_frame
                   THEN "VERIFY_PICTURE_ASSET_RESULT_FRAME_NEARLY_TOO_LARGE"
                   ELSE "VERIFY_PICTURE_ASSET_RESULT_GOOD"]

\* verify_main_picture_asset: the notes for the frame sizes
picture_frame_size_notes(a, result) ==
    IF result = "VERIFY_PICTURE_ASSET_RESULT_BAD"
    THEN <<Note("VERIFY_ERROR", "INVALID_PICTURE_FRAME_SIZE_IN_BYTES", a.id)>>
    ELSE IF result = "VERIFY_PICTURE_ASSET_RESULT_FRAME_NEARLY_TOO_LARGE"
    THEN <<Note("VERIFY_WARNING", "NEARLY_INVALID_PICTURE_FRAME_SIZE_IN_BYTES", a.id)>>
    ELSE <<>>

\* verify_smpte_subtitle_asset: the language of the asset against the one the
\* State holds, which is set by the first asset with a language
verify_smpte_subtitle_asset(state, a) ==
    IF IsSome(a.language)
    THEN [state |-> IF IsSome(state.subtitle_language) THEN state
                    ELSE [subtitle_language |-> a.language],
          notes |-> IF IsSome(state.subtitle_language) /\ state.subtitle_language # a.language
                    THEN <<Note("VERIFY_BV21_ERROR", "MISMATCHED_SUBTITLE_LANGUAGES", 0)>>
                    ELSE <<>>]
    ELSE [state |-> state,
          notes |-> <<Note("VERIFY_BV21_ERROR", "MISSING_SUBTITLE_LANGUAGE", a.id)>>]

\* the turn of dcp::verify for one CPL, which has one resolved asset: st holds
\* the State, the statics, and the notes of the CPLs of the directory so far
VerifyStateCpl(st, a) ==
    IF a.kind = "picture"
    THEN [st EXCEPT
            !.statics = verify_picture_asset(st.statics, a).statics,
            !.cpls = Append(@, picture_frame_size_notes(a,
                                   verify_picture_asset(st.statics, a).result))]
    ELSE [st EXCEPT
            !.state = verify_smpte_subtitle_asset(st.state, a).state,
            !.cpls = Append(@, verify_smpte_subtitle_asset(st.state, a).notes)]

RECURSIVE VerifyStateCpls(_, _)
\* the loop over the CPLs of a directory
VerifyStateCpls(st, cpls) ==
    IF cpls = <<>> THEN st ELSE VerifyStateCpls(VerifyStateCpl(st, Head(cpls)), Tail(cpls))

RECURSIVE VerifyStateDirs(_, _)
\* the loop over the directories: groups gets the notes of each directory, CPL by CPL
VerifyStateDirs(st, dirs) ==
    IF dirs = <<>> THEN st
    ELSE VerifyStateDirs(
             [VerifyStateCpls([st EXCEPT !.cpls = <<>>], Head(dirs)) EXCEPT
                 !.groups = Append(@, VerifyStateCpls([st EXCEPT !.cpls = <<>>], Head(dirs)).cpls)],
             Tail(dirs))

\* dcp::verify (directories) in a process with the given statics
verify_with_state(statics, dirs) ==
    VerifyStateDirs([state |-> [subtitle_language |-> None], statics |-> statics,
                     cpls |-> <<>>, groups |-> <<>>], dirs)

\* the assets of the packages: pictures with the sizes of their frames, and
\* SMPTE subtitles with their language
StateAssets ==
    {[kind |-> "picture", id |-> 41, stereo |-> FALSE, edit_rate |-> <<24, 1>>, frames |-> <<<<600000>>, <<1250000>>>>],
     [kind |-> "picture", id |-> 43, stereo |-> FALSE, edit_rate |-> <<48, 1>>, frames |-> <<<<700000>>>>],
     [kind |-> "picture", id |-> 45, stereo |-> TRUE, edit_rate |-> <<48, 1>>, frames |-> <<<<500000, 620000>>>>],
     [kind |-> "subtitle", id |-> 46, language |-> Some("en")],
     [kind |-> "subtitle", id |-> 47, language |-> Some("fr")]}

\* a directory is the list of the assets of its CPLs
StateDirectories == SeqsUpTo(StateAssets, MaxStateCpls) \ {<<>>}

\* a process that has not called dcp::verify
InitVerifyState ==
    /\ A = NewDCP
    /\ B = NewDCP
    /\ disk = EmptyDirectory
    /\ notes = NewNotes
    /\ uuids = 0
    /\ last = Last("init", "none", FALSE, FALSE, 0, 0)
    /\ rdirs = <<>>
    /\ certs = <<>>
    /\ key = None
    /\ signedDoc = NoDoc
    /\ tmp = {}
    /\ cwd = 0
    /\ obj = Some([statics |-> NoStatics, calls |-> 0])

\* the end of a call of dcp::verify that leaves st
VerifyWithStateEnded(dirs, st) ==
    /\ obj' = Some([statics |-> st.statics, calls |-> Get(obj).calls + 1])
    /\ last' = [Last("verify_with_state", "none", FALSE, FALSE, 0, 0) EXCEPT
                   !.arg = [statics |-> Get(obj).statics, dirs |-> dirs],
                   !.groups = st.groups]

\* dcp::verify (dirs, ...) in the process: obj holds the statics and the number of
\* calls so far, last.groups gets the notes of the call, directory by directory
\* and CPL by CPL
VerifyWithState(dirs) ==
    /\ Get(obj).calls < MaxVerifyCalls
    /\ VerifyWithStateEnded(dirs, verify_with_state(Get(obj).statics, dirs))
    /\ UNCHANGED <<dcpVars, certs, key, signedDoc, tmp, cwd>>

NextVerifyState ==
    \E dirs \in SeqsUpTo(StateDirectories, MaxStateDirs) \ {<<>>} : VerifyWithState(dirs)

SpecVerifyState == InitVerifyState /\ [][NextVerifyState]_vars

----------------------------------------------------------------------------
(* C22 *)

\* C22: for every picture asset checked during a dcp::verify call, whatever
\* assets were checked before it, the frame-size limits are rint (250*10^6 /
\* (8*fps)) and rint (230*10^6 / (8*fps)) bytes with fps the edit rate of that
\* asset: a largest frame above the first limit gives
\* INVALID_PICTURE_FRAME_SIZE_IN_BYTES, one above the second limit only gives
\* NEARLY_INVALID_PICTURE_FRAME_SIZE_IN_BYTES, otherwise there is no note.
C22_FrameLimitsOfTheAsset ==
    last.op = "verify_with_state" =>
        \A d \in 1..Len(last.arg.dirs) : \A c \in 1..Len(last.arg.dirs[d]) :
            LET a == last.arg.dirs[d][c] IN
            a.kind = "picture" =>
                last.groups[d][c] =
                    IF biggest_frame(a.frames, 0) > frame_limit(250, a.edit_rate)
                    THEN <<Note("VERIFY_ERROR", "INVALID_PICTURE_FRAME_SIZE_IN_BYTES", a.id)>>
                    ELSE IF biggest_frame(a.frames, 0) > frame_limit(230, a.edit_rate)
                    THEN <<Note("VERIFY_WARNING", "NEARLY_INVALID_PICTURE_FRAME_SIZE_IN_BYTES", a.id)>>
                    ELSE <<>>

----------------------------------------------------------------------------
(* C29 *)

\* C29: the notes dcp::verify produces for a package do not depend on what was
\* verified before it in the same call: verifying the directories [d1, d2]
\* returns the notes of verifying [d1] alone followed by the notes of verifying
\* [d2] alone, and within a package the notes for one CPL do not depend on the
\* subtitle languages of the other CPLs.
C29_NotesIndependentOfEarlierWork ==
    (last.op = "verify_with_state" /\ last.arg.statics = NoStatics) =>
        \A d \in 1..Len(last.arg.dirs) :
            /\ last.groups[d] = verify_with_state(NoStatics, <<last.arg.dirs[d]>>).groups[1]
            /\ \A c \in 1..Len(last.arg.dirs[d]) :
                  last.arg.dirs[d][c].kind = "subtitle" =>
                      last.groups[d][c] =
                          verify_with_state(NoStatics, <<<<last.arg.dirs[d][c]>>>>).groups[1][1]

----------------------------------------------------------------------------
(* check_text_timing for the main subtitles of the reels of a CPL             *)
(* (verify.cc).  The reels of the model have no closed captions.              *)

MaxTimingReels == 3

\* dcp::Time (h, m, s, e, tcr) with no hours and minutes
DcpTime(s, e, tcr) == [h |-> 0, m |-> 0, s |-> s, e |-> e, tcr |-> tcr]

\* operator< of Time for two times of one tcr
Time_less(a, b) ==
    \/ a.h < b.h
    \/ a.h = b.h /\ a.m < b.m
    \/ a.h = b.h /\ a.m = b.m /\ a.s < b.s
    \/ a.h = b.h /\ a.m = b.m /\ a.s = b.s /\ a.e < b.e

\* Time::as_editable_units (f) of a time that is a whole number of units at f
Time_as_editable_units(t, f) ==
    t.h * 3600 * f + t.m * 60 * f + t.s * f + (t.e * f) \div t.tcr

\* the state of check_text_timing before the first reel
NewTextTiming ==
    [last_out |-> None, too_short |-> FALSE, too_close |-> FALSE, too_early |-> FALSE,
     reel_offset |-> 0]

\* parse for one <Subtitle> node: length is out - in
ParseSubtitle(t, sub, tcr, pfr, first_reel) ==
    [t EXCEPT
        !.too_early = @ \/ (first_reel /\ Time_less(sub.in, DcpTime(4, 0, tcr))),
        !.too_short = @ \/ (Time_as_editable_units(sub.out, pfr)
                               - Time_as_editable_units(sub.in, pfr) < 15),
        !.too_close = @ \/ (/\ IsSome(t.last_out)
                            /\ t.reel_offset + Time_as_editable_units(sub.in, pfr)
                                   - Get(t.last_out) >= 0
                            /\ t.reel_offset + Time_as_editable_units(sub.in, pfr)
                                   - Get(t.last_out) < 2),
        !.last_out = Some(t.reel_offset + Time_as_editable_units(sub.out, pfr))]

RECURSIVE ParseSubtitles(_, _, _, _, _)
\* parse for the <Subtitle> nodes of a document, in their order
ParseSubtitles(t, subs, tcr, pfr, first_reel) ==
    IF subs = <<>> THEN t
    ELSE ParseSubtitles(ParseSubtitle(t, Head(subs), tcr, pfr, first_reel),
                        Tail(subs), tcr, pfr, first_reel)

RECURSIVE TextTimingReels(_, _, _, _)
\* the loop over the reels from reel i on: a reel without a main subtitle is
\* passed over, and reel_offset grows by the actual duration of the main
\* subtitle of a reel that is not
TextTimingReels(t, reels, i, pfr) ==
    IF i > Len(reels) THEN t
    ELSE IF ~IsSome(reels[i].main_subtitle) THEN TextTimingReels(t, reels, i + 1, pfr)
    ELSE TextTimingReels(
             [ParseSubtitles(t, Get(reels[i].main_subtitle).subtitles,
                             Get(reels[i].main_subtitle).tcr, pfr, i = 1)
                 EXCEPT !.reel_offset = @ + Get(reels[i].main_subtitle).actual_duration],
             reels, i + 1, pfr)

\* the notes of check_text_timing for what the loop found
TextTimingNotes(t) ==
    (IF t.too_early
     THEN <<Note("VERIFY_WARNING", "INVALID_SUBTITLE_FIRST_TEXT_TIME", 0)>> ELSE <<>>)
    \o (IF t.too_short
        THEN <<Note("VERIFY_WARNING", "INVALID_SUBTITLE_DURATION", 0)>> ELSE <<>>)
    \o (IF t.too_close
        THEN <<Note("VERIFY_WARNING", "INVALID_SUBTITLE_SPACING", 0)>> ELSE <<>>)

\* check_text_timing (reels, notes): the notes it pushes
check_text_timing(reels) ==
    IF reels = <<>> THEN <<>>
    ELSE IF ~IsSome(reels[1].main_subtitle) THEN <<>>
    ELSE TextTimingNotes(TextTimingReels(NewTextTiming, reels, 1,
             IF IsSome(reels[1].main_picture_frame_rate)
             THEN Get(reels[1].main_picture_frame_rate) ELSE 24))

\* <Subtitle TimeIn="..." TimeOut="...">, at 24 units in a second
Subtitle(in_s, in_e, out_s, out_e) ==
    [in |-> DcpTime(in_s, in_e, 24), out |-> DcpTime(out_s, out_e, 24)]

\* the subtitle documents of the reels: a subtitle from 0 s, one from 4 s to one
\* unit before 5 s, and after that one a subtitle from 5 s (one unit later), one
\* from one unit after 5 s (two units later), and one from 4 s 14 (before its end)
SubtitleLists ==
    {<<>>,
     <<Subtitle(0, 0, 0, 23)>>,
     <<Subtitle(4, 0, 4, 23)>>,
     <<Subtitle(4, 0, 5, 23)>>,
     <<Subtitle(4, 0, 4, 23), Subtitle(5, 0, 5, 23)>>,
     <<Subtitle(4, 0, 4, 23), Subtitle(5, 1, 5, 23)>>,
     <<Subtitle(4, 0, 4, 23), Subtitle(4, 14, 5, 23)>>}

\* a reel of the given duration, whose main subtitle, if it has one, lasts as long
TimingReel(duration, frame_rate, subs) ==
    [duration |-> duration,
     main_picture_frame_rate |-> frame_rate,
     main_subtitle |-> IF IsSome(subs)
                       THEN Some([subtitles |-> Get(subs), tcr |-> 24,
                                  actual_duration |-> duration])
                       ELSE None]

\* the reels: one of 6 s (144 units) for each subtitle document, one of 6 s
\* without a main subtitle, one of 6 s without a main picture, and one of 2 s
\* whose subtitle document has no subtitle
TimingReels ==
    {TimingReel(144, Some(24), None),
     TimingReel(144, None, Some(<<Subtitle(4, 0, 5, 23)>>)),
     TimingReel(48, Some(24), Some(<<>>))}
    \cup {TimingReel(144, Some(24), Some(subs)) : subs \in SubtitleLists}

InitTextTiming ==
    /\ A = NewDCP
    /\ B = NewDCP
    /\ disk = EmptyDirectory
    /\ notes = NewNotes
    /\ uuids = 0
    /\ last = Last("init", "none", FALSE, FALSE, 0, 0)
    /\ rdirs = <<>>
    /\ InitChain

\* the reels of a CPL of a SMPTE package, as DCP::read made them
LoadTimingCpl(reels) ==
    /\ obj' = Some([reels |-> reels])
    /\ last' = Last("load_cpl", "none", FALSE, FALSE, 0, 0)
    /\ UNCHANGED <<dcpVars, certs, key, signedDoc, tmp, cwd>>

\* check_text_timing (cpl->reels (), notes)
CheckTextTiming ==
    /\ IsSome(obj)
    /\ last' = [Last("check_text_timing", "none", FALSE, FALSE, 0, 0) EXCEPT
                   !.result = check_text_timing(Get(obj).reels)]
    /\ UNCHANGED <<dcpVars, chainVars>>

NextTextTiming ==
    \/ \E reels \in SeqsUpTo(TimingReels, MaxTimingReels) : LoadTimingCpl(reels)
    \/ CheckTextTiming

SpecTextTiming == InitTextTiming /\ [][NextTextTiming]_vars

RECURSIVE TimedSubtitles(_, _, _)
\* the subtitles of the reels from reel i on, in the order of the documents, with
\* their times in frames from the start of the composition: offset is the sum of
\* the durations of the reels before reel i
TimedSubtitles(reels, i, offset) ==
    IF i > Len(reels) THEN <<>>
    ELSE (IF IsSome(reels[i].main_subtitle)
          THEN [k \in 1..Len(Get(reels[i].main_subtitle).subtitles) |->
                   [in |-> offset + Time_as_editable_units(
                                        Get(reels[i].main_subtitle).subtitles[k].in, 24),
                    out |-> offset + Time_as_editable_units(
                                         Get(reels[i].main_subtitle).subtitles[k].out, 24)]]
          ELSE <<>>)
         \o TimedSubtitles(reels, i + 1, offset + reels[i].duration)

----------------------------------------------------------------------------
(* C23 *)

\* C23: dcp::verify emits INVALID_SUBTITLE_FIRST_TEXT_TIME whenever the first
\* subtitle of a composition starts less than 4 seconds from the start of the
\* DCP, the start being measured across reels (the durations of the reels before
\* it added, at the picture frame rate, 24 by default), and not when the first
\* subtitle starts at 4 seconds or later.
C23_FirstTextTimeAcrossReels ==
    (last.op = "check_text_timing" /\ TimedSubtitles(Get(obj).reels, 1, 0) # <<>>) =>
        (HasNote(last.result, "INVALID_SUBTITLE_FIRST_TEXT_TIME", 0)
            <=> TimedSubtitles(Get(obj).reels, 1, 0)[1].in < 4 * 24)

----------------------------------------------------------------------------
(* C24 *)

\* C24: check_text_timing emits INVALID_SUBTITLE_SPACING exactly when two
\* consecutive subtitles (in document order, later reels offset by the cumulative
\* actual duration of the earlier reels) are separated by a gap of fewer than 2
\* frames that is not negative: a gap of 2 frames or more gives no warning, a gap
\* of 1 frame gives the warning, and a negative gap (overlap) gives no warning.
C24_SpacingWarningExact ==
    last.op = "check_text_timing" =>
        LET subs == TimedSubtitles(Get(obj).reels, 1, 0) IN
        HasNote(last.result, "INVALID_SUBTITLE_SPACING", 0)
            <=> \E k \in 1..(Len(subs) - 1) :
                   subs[k + 1].in - subs[k].out >= 0 /\ subs[k + 1].in - subs[k].out < 2

----------------------------------------------------------------------------
(* check_text_lines_and_characters for one subtitle asset (verify.cc).  A    *)
(* subtitle of the model has the position that the lambda `position` gives   *)
(* it and the length of its text; its times are whole numbers.               *)

MaxSubtitles == 4

\* the text subtitles an asset can hold: three lines from 0 to 10, a fourth line
\* from 10 to 20 and one from 5 to 8, a subtitle with an empty text from 2 to 12
\* on the first line, and a subtitle on the second line that ends when it starts
SubtitlePool ==
    <<[in |-> 0, out |-> 10, position |-> 10, characters |-> 5],
      [in |-> 0, out |-> 10, position |-> 20, characters |-> 5],
      [in |-> 0, out |-> 10, position |-> 30, characters |-> 5],
      [in |-> 10, out |-> 20, position |-> 40, characters |-> 5],
      [in |-> 5, out |-> 8, position |-> 40, characters |-> 52],
      [in |-> 2, out |-> 12, position |-> 10, characters |-> 0],
      [in |-> 4, out |-> 4, position |-> 20, characters |-> 5]>>

\* asset->subtitles (): some subtitles of the pool, in its order
SubtitleAssets ==
    {[k \in 1..Cardinality(S) |-> SubtitlePool[SetToSortedSeq(S)[k]]] :
        S \in {T \in SUBSET (1..Len(SubtitlePool)) : Cardinality(T) <= MaxSubtitles}}

\* the events of the subtitles: for subtitle k the Event (in, position,
\* characters), and the Event (out, start) whose start is that event
Events(subs) ==
    {[sub |-> k, is_end |-> e, time |-> IF e THEN subs[k].out ELSE subs[k].in] :
        k \in 1..Len(subs), e \in BOOLEAN}

RECURSIVE SortedOrders(_)
\* what std::sort can make of the events with the comparison a->time < b->time:
\* any order with ascending times (the order of events of one time is not fixed)
SortedOrders(events) ==
    IF events = {} THEN {<<>>}
    ELSE UNION {{<<e>> \o o : o \in SortedOrders(events \ {e})} :
                   e \in {x \in events : \A y \in events : x.time <= y.time}}

\* the result and the map before the first event
NewSweep ==
    [current |-> <<>>, line_count_exceeded |-> FALSE, warning_length_exceeded |-> FALSE,
     error_length_exceeded |-> FALSE, threw |-> "none"]

\* the body of the loop over the events for the event e
SweepEvent(w, subs, e, warning_length, error_length) ==
    LET checked ==
            [w EXCEPT
                !.line_count_exceeded = @ \/ Cardinality(DOMAIN w.current) > 3,
                !.warning_length_exceeded =
                    @ \/ \E p \in DOMAIN w.current : w.current[p] >= warning_length,
                !.error_length_exceeded =
                    @ \/ \E p \in DOMAIN w.current : w.current[p] >= error_length]
        pos == subs[e.sub].position
        chars == subs[e.sub].characters
    IN
    IF e.is_end
    THEN IF pos \notin DOMAIN w.current
         THEN [checked EXCEPT !.threw = "ProgrammingError"]
         ELSE IF w.current[pos] = chars
         THEN [checked EXCEPT !.current = [p \in DOMAIN w.current \ {pos} |-> w.current[p]]]
         ELSE [checked EXCEPT !.current = [w.current EXCEPT ![pos] = @ - chars]]
    ELSE IF pos \notin DOMAIN w.current
         THEN [checked EXCEPT !.current = (pos :> chars) @@ w.current]
         ELSE [checked EXCEPT !.current = [w.current EXCEPT ![pos] = @ + chars]]

RECURSIVE Sweep(_, _, _, _, _)
\* the loop over the sorted events; a failed DCP_ASSERT ends it
Sweep(w, subs, events, warning_length, error_length) ==
    IF events = <<>> \/ w.threw # "none" THEN w
    ELSE Sweep(SweepEvent(w, subs, Head(events), warning_length, error_length),
               subs, Tail(events), warning_length, error_length)

InitTextLines ==
    /\ A = NewDCP
    /\ B = NewDCP
    /\ disk = EmptyDirectory
    /\ notes = NewNotes
    /\ uuids = 0
    /\ last = Last("init", "none", FALSE, FALSE, 0, 0)
    /\ rdirs = <<>>
    /\ InitChain

\* a subtitle asset of a reel, as it was read
LoadSubtitleAsset(subs) ==
    /\ obj' = Some([subtitles |-> subs])
    /\ last' = Last("load_subtitles", "none", FALSE, FALSE, 0, 0)
    /\ UNCHANGED <<dcpVars, certs, key, signedDoc, tmp, cwd>>

\* check_text_lines_and_characters (asset, 52, 79, &result) with a new result,
\* when std::sort leaves the events in the given order
CheckTextLines(order) ==
    /\ IsSome(obj)
    /\ order \in SortedOrders(Events(Get(obj).subtitles))
    /\ last' = [Last("check_text_lines", Sweep(NewSweep, Get(obj).subtitles, order, 52, 79).threw,
                     FALSE, FALSE, 0, 0) EXCEPT
                   !.arg = order,
                   !.result = Sweep(NewSweep, Get(obj).subtitles, order, 52, 79)]
    /\ UNCHANGED <<dcpVars, chainVars>>

NextTextLines ==
    \/ \E subs \in SubtitleAssets : LoadSubtitleAsset(subs)
    \/ \E order \in SortedOrders(Events(IF IsSome(obj) THEN Get(obj).subtitles ELSE <<>>)) :
          CheckTextLines(order)

SpecTextLines == InitTextLines /\ [][NextTextLines]_vars

\* the positions of the subtitles that are displayed at the time t
DisplayedPositions(subs, t) ==
    {subs[k].position : k \in {j \in 1..Len(subs) : subs[j].in <= t /\ t < subs[j].out}}

----------------------------------------------------------------------------
(* C25 *)

\* C25: the event sweep of check_text_lines_and_characters sets
\* line_count_exceeded if and only if there is an instant at which subtitles at
\* more than 3 distinct vertical positions are displayed (a subtitle being
\* displayed from its in time up to its out time), independently of the order the
\* sort gives to events of equal time.
C25_LineCountExact ==
    (last.op = "check_text_lines" /\ last.threw = "none") =>
        (last.result.line_count_exceeded
            <=> \E k \in 1..Len(Get(obj).subtitles) :
                   Cardinality(DisplayedPositions(Get(obj).subtitles,
                                                  Get(obj).subtitles[k].in)) > 3)

----------------------------------------------------------------------------
(* C30 *)

\* C30: in the event sweep of check_text_lines_and_characters, for every list of
\* text subtitles with in <= out (empty texts, zero-length subtitles and several
\* subtitles at one vertical position included), each out event finds the
\* vertical position of its subtitle still in the current map, so the DCP_ASSERT
\* never fails, no character count becomes negative, and the map is empty after
\* the last event.
C30_SweepAssertionHolds ==
    last.op = "check_text_lines" =>
        /\ last.threw = "none"
        /\ \A p \in DOMAIN last.result.current : last.result.current[p] >= 0
        /\ DOMAIN last.result.current = {}

============================================================================
